---- MODULE Spec2Model ----
(***************************************************************************)
(* Model of the remote-control service in                                  *)
(* src/python-backend/remote_control_server.py: the SQLite store, the     *)
(* probe runner, the probe scheduler thread, the on-demand probe runs of   *)
(* the HTTP worker threads, the action gateway and the HTTP front door.    *)
(*                                                                         *)
(* Timestamps are integers (whole seconds, or ticks of 1/TicksPerSecond    *)
(* second where sub-second ages matter); the ISO-8601 UTC strings of the   *)
(* code order the same way.  A missing (None / SQL NULL) integer is NULL.  *)
(***************************************************************************)
EXTENDS Integers, Sequences, FiniteSets, TLC

VARIABLES
    phase,        \* "down" | "up": whether the control-plane process runs
    config,       \* RemoteControlApi.config: the ConfigSnapshot read at start
    admin_token,  \* RemoteControlApi.admin_token
    defs,         \* table probe_definitions: probe_key -> row
    runs,         \* table probe_runs: sequence of rows, row i has id i
    audit,        \* table action_audit: sequence of rows, row i has id i
    clock,        \* wall clock, never decreasing
    sched,        \* the ProbeScheduler thread
    workers,      \* the HTTP worker threads
    uncommitted,  \* how many of the latest probe_runs rows the connection has not committed
    last          \* what the latest operation was given and what it returned

vars == <<phase, config, admin_token, defs, runs, audit, clock, sched, workers, uncommitted, last>>

NULL == -1

Max(a, b) == IF a >= b THEN a ELSE b
Min(a, b) == IF a <= b THEN a ELSE b

(***************************************************************************)
(* JSON values and text.  A value is a tagged record; an object is a       *)
(* sequence of <<key, value>> pairs with distinct keys (a Python dict, in  *)
(* insertion order); a string is a sequence of characters.  JSON text is   *)
(* a sequence of characters.  Numbers are integers.                        *)
(***************************************************************************)
JNull == [t |-> "null", v |-> 0]
JBool(b) == [t |-> "bool", v |-> b]
JInt(n) == [t |-> "int", v |-> n]
JStr(s) == [t |-> "str", v |-> s]
JArr(xs) == [t |-> "arr", v |-> xs]
JObj(ps) == [t |-> "obj", v |-> ps]

isinstance_dict(x) == x.t = "obj"

\* A character outside ASCII, written as its code point.
NonAscii == {"U+00e9"}
Digits == <<"0", "1", "2", "3", "4", "5", "6", "7", "8", "9">>

DigitOf(c) == CHOOSE d \in 0..9 : Digits[d + 1] = c
IsDigit(c) == \E d \in 0..9 : Digits[d + 1] = c

RECURSIVE NatText(_)
NatText(n) == IF n < 10 THEN <<Digits[n + 1]>>
              ELSE NatText(n \div 10) \o <<Digits[(n % 10) + 1]>>

IntText(n) == IF n < 0 THEN <<"-">> \o NatText(0 - n) ELSE NatText(n)

\* A json.dumps that escapes nothing.
EscapeCharRaw(c) == <<c>>

\* json.dumps of one character of a string, ensure_ascii=True.
EscapeChar(c) ==
    IF c = "\"" THEN <<"\\", "\"">>
    ELSE IF c = "\\" THEN <<"\\", "\\">>
    ELSE IF c \in NonAscii THEN <<"\\", "u", "0", "0", "e", "9">>
    ELSE <<c>>

RECURSIVE EscapeString(_)
EscapeString(s) == IF s = <<>> THEN <<>>
                   ELSE EscapeChar(Head(s)) \o EscapeString(Tail(s))

StringText(s) == <<"\"">> \o EscapeString(s) \o <<"\"">>

RECURSIVE json_dumps(_), DumpItems(_), DumpMembers(_)
\* json.dumps(value, ensure_ascii=True) with the default separators ", " and ": ".
json_dumps(x) ==
    CASE x.t = "null" -> <<"n", "u", "l", "l">>
      [] x.t = "bool" -> IF x.v THEN <<"t", "r", "u", "e">> ELSE <<"f", "a", "l", "s", "e">>
      [] x.t = "int" -> IntText(x.v)
      [] x.t = "str" -> StringText(x.v)
      [] x.t = "arr" -> <<"[">> \o DumpItems(x.v) \o <<"]">>
      [] x.t = "obj" -> <<"{">> \o DumpMembers(x.v) \o <<"}">>

DumpItems(xs) ==
    IF xs = <<>> THEN <<>>
    ELSE IF Len(xs) = 1 THEN json_dumps(xs[1])
    ELSE json_dumps(xs[1]) \o <<",", " ">> \o DumpItems(Tail(xs))

DumpMembers(ps) ==
    IF ps = <<>> THEN <<>>
    ELSE LET m == StringText(ps[1][1]) \o <<":", " ">> \o json_dumps(ps[1][2])
         IN IF Len(ps) = 1 THEN m ELSE m \o <<",", " ">> \o DumpMembers(Tail(ps))

\* The decoder: every Parse... returns [ok, v, i] with i the next index to read.
ParseFail == [ok |-> FALSE, v |-> JNull, i |-> 0]
ParseOk(v, i) == [ok |-> TRUE, v |-> v, i |-> i]

RECURSIVE SkipWs(_, _)
SkipWs(s, i) == IF i <= Len(s) /\ s[i] = " " THEN SkipWs(s, i + 1) ELSE i

Lit(s, i, w) == i + Len(w) - 1 <= Len(s) /\ SubSeq(s, i, i + Len(w) - 1) = w

RECURSIVE ParseDigits(_, _, _)
ParseDigits(s, i, acc) ==
    IF i <= Len(s) /\ IsDigit(s[i]) THEN ParseDigits(s, i + 1, acc * 10 + DigitOf(s[i]))
    ELSE [v |-> acc, i |-> i]

ParseNumber(s, i) ==
    LET neg == s[i] = "-"
        j == IF neg THEN i + 1 ELSE i
    IN IF j > Len(s) \/ ~IsDigit(s[j]) THEN ParseFail
       ELSE LET r == ParseDigits(s, j, 0)
            IN ParseOk(JInt(IF neg THEN 0 - r.v ELSE r.v), r.i)

\* The characters of a string literal from index i (after the opening quote).
RECURSIVE ParseChars(_, _, _)
ParseChars(s, i, acc) ==
    IF i > Len(s) THEN ParseFail
    ELSE IF s[i] = "\"" THEN ParseOk(acc, i + 1)
    ELSE IF s[i] = "\\" THEN
        IF i + 1 > Len(s) THEN ParseFail
        ELSE IF s[i + 1] = "\"" THEN ParseChars(s, i + 2, Append(acc, "\""))
        ELSE IF s[i + 1] = "\\" THEN ParseChars(s, i + 2, Append(acc, "\\"))
        ELSE IF Lit(s, i + 1, <<"u", "0", "0", "e", "9">>)
             THEN ParseChars(s, i + 6, Append(acc, "U+00e9"))
        ELSE ParseFail
    ELSE ParseChars(s, i + 1, Append(acc, s[i]))

RECURSIVE ParseValue(_, _), ParseItems(_, _, _), ParseMembers(_, _, _)
ParseValue(s, i0) ==
    LET i == SkipWs(s, i0)
    IN IF i > Len(s) THEN ParseFail
       ELSE IF Lit(s, i, <<"n", "u", "l", "l">>) THEN ParseOk(JNull, i + 4)
       ELSE IF Lit(s, i, <<"t", "r", "u", "e">>) THEN ParseOk(JBool(TRUE), i + 4)
       ELSE IF Lit(s, i, <<"f", "a", "l", "s", "e">>) THEN ParseOk(JBool(FALSE), i + 5)
       ELSE IF s[i] = "\"" THEN
            LET r == ParseChars(s, i + 1, <<>>)
            IN IF r.ok THEN ParseOk(JStr(r.v), r.i) ELSE ParseFail
       ELSE IF s[i] = "[" THEN
            LET j == SkipWs(s, i + 1)
            IN IF j <= Len(s) /\ s[j] = "]" THEN ParseOk(JArr(<<>>), j + 1)
               ELSE ParseItems(s, j, <<>>)
       ELSE IF s[i] = "{" THEN
            LET j == SkipWs(s, i + 1)
            IN IF j <= Len(s) /\ s[j] = "}" THEN ParseOk(JObj(<<>>), j + 1)
               ELSE ParseMembers(s, j, <<>>)
       ELSE IF s[i] = "-" \/ IsDigit(s[i]) THEN ParseNumber(s, i)
       ELSE ParseFail

ParseItems(s, i, acc) ==
    LET r == ParseValue(s, i)
    IN IF ~r.ok THEN ParseFail
       ELSE LET j == SkipWs(s, r.i)
            IN IF j > Len(s) THEN ParseFail
               ELSE IF s[j] = "]" THEN ParseOk(JArr(Append(acc, r.v)), j + 1)
               ELSE IF s[j] = "," THEN ParseItems(s, j + 1, Append(acc, r.v))
               ELSE ParseFail

\* A repeated key keeps its first position and takes the last value, as a dict does.
PutMember(ps, k, v) ==
    IF \E n \in 1..Len(ps) : ps[n][1] = k
    THEN [n \in 1..Len(ps) |-> IF ps[n][1] = k THEN <<k, v>> ELSE ps[n]]
    ELSE Append(ps, <<k, v>>)

ParseMembers(s, i0, acc) ==
    LET i == SkipWs(s, i0)
    IN IF i > Len(s) \/ s[i] # "\"" THEN ParseFail
       ELSE LET k == ParseChars(s, i + 1, <<>>)
            IN IF ~k.ok THEN ParseFail
               ELSE LET c == SkipWs(s, k.i)
                    IN IF c > Len(s) \/ s[c] # ":" THEN ParseFail
                       ELSE LET r == ParseValue(s, c + 1)
                            IN IF ~r.ok THEN ParseFail
                               ELSE LET j == SkipWs(s, r.i)
                                        ps == PutMember(acc, k.v, r.v)
                                    IN IF j > Len(s) THEN ParseFail
                                       ELSE IF s[j] = "}" THEN ParseOk(JObj(ps), j + 1)
                                       ELSE IF s[j] = "," THEN ParseMembers(s, j + 1, ps)
                                       ELSE ParseFail

\* json.loads(text): [ok |-> FALSE] stands for json.JSONDecodeError.
WholeText(s, r) == IF r.ok /\ SkipWs(s, r.i) = Len(s) + 1 THEN r ELSE ParseFail

json_loads(s) == WholeText(s, ParseValue(s, 1))

\* dict.get(key, default) on a JSON object.
JGet(obj, key, default) ==
    IF \E n \in 1..Len(obj.v) : obj.v[n][1] = key
    THEN obj.v[CHOOSE n \in 1..Len(obj.v) : obj.v[n][1] = key][2]
    ELSE default

(***************************************************************************)
(* Strings.  str.strip() is modelled on the padded sample strings.         *)
(***************************************************************************)
strip(s) ==
    CASE s = " a" -> "a"
      [] s = "b " -> "b"
      [] s = " " -> ""
      [] s = " restart" -> "restart"
      [] s = "nginx " -> "nginx"
      [] s = " service" -> "service"
      [] s = " service_action" -> "service_action"
      [] s = " s3cret" -> "s3cret"
      [] s = "Unit not found. " -> "Unit not found."
      [] OTHER -> s

\* The order of probe keys as SQLite's BINARY collation compares them.
KeyOrder == <<"a", "b", "c">>
KeyRank(k) == CHOOSE n \in 1..Len(KeyOrder) : KeyOrder[n] = k

(***************************************************************************)
(* Time.  One second is TicksPerSecond ticks of the clock.                 *)
(***************************************************************************)
TicksPerSecond == 2

Seconds(n) == n * TicksPerSecond

\* int(timedelta.total_seconds()): truncation toward zero.
TruncSeconds(ticks) ==
    IF ticks >= 0 THEN ticks \div TicksPerSecond
    ELSE 0 - ((0 - ticks) \div TicksPerSecond)

(***************************************************************************)
(* SQLiteStore.  A database is [defs, runs, audit]; every operation runs   *)
(* under the store's lock and commits, so it is one atomic step.           *)
(***************************************************************************)
DB == [defs |-> defs, runs |-> runs, audit |-> audit]

\* self.conn.commit(): whatever the connection's transaction holds becomes durable.
Commit(db) == defs' = db.defs /\ runs' = db.runs /\ audit' = db.audit /\ uncommitted' = 0

\* The rows a process that opens the database finds.
Committed(rows, n) == SubSeq(rows, 1, Len(rows) - n)

EmptyObj == JObj(<<>>)

\* _normalize_probe_definition raises ValueError on an empty key or type.
NormalizeRaises(defn) == strip(defn.key) = "" \/ strip(defn.type) = ""

\* defn.get(name, default) for an integer field: NULL stands for "not given".
GetInt(x, default) == IF x = NULL THEN default ELSE x

\* A normalization that stores the numbers as given.
normalize_without_clamp(defn) ==
    LET interval_seconds == GetInt(defn.interval_seconds, 60)
        timeout_seconds == GetInt(defn.timeout_seconds, 5)
        stale_after_seconds == GetInt(defn.stale_after_seconds, Max(interval_seconds * 2, 120))
        cfg == IF isinstance_dict(defn.config) THEN defn.config ELSE EmptyObj
    IN [probe_key |-> strip(defn.key),
        probe_type |-> strip(defn.type),
        interval_seconds |-> interval_seconds,
        timeout_seconds |-> timeout_seconds,
        stale_after_seconds |-> stale_after_seconds,
        enabled |-> IF defn.enabled THEN 1 ELSE 0,
        probe_config_json |-> json_dumps(cfg)]

normalize_probe_definition(defn) ==
    LET interval_seconds == GetInt(defn.interval_seconds, 60)
        timeout_seconds == GetInt(defn.timeout_seconds, 5)
        stale_after_seconds == GetInt(defn.stale_after_seconds, Max(interval_seconds * 2, 120))
        cfg == IF isinstance_dict(defn.config) THEN defn.config ELSE EmptyObj
    IN [probe_key |-> strip(defn.key),
        probe_type |-> strip(defn.type),
        interval_seconds |-> Max(5, interval_seconds),
        timeout_seconds |-> Max(1, timeout_seconds),
        stale_after_seconds |-> Max(10, stale_after_seconds),
        enabled |-> IF defn.enabled THEN 1 ELSE 0,
        probe_config_json |-> json_dumps(cfg)]

\* An upsert that makes an updated definition due again.
UpsertRowResetting(d, n, now) ==
    [probe_type |-> n.probe_type,
     interval_seconds |-> n.interval_seconds,
     timeout_seconds |-> n.timeout_seconds,
     stale_after_seconds |-> n.stale_after_seconds,
     enabled |-> n.enabled,
     probe_config_json |-> n.probe_config_json,
     next_run_at |-> now,
     last_run_at |-> IF n.probe_key \in DOMAIN d THEN d[n.probe_key].last_run_at ELSE NULL]

\* The row written for normalized definition n: INSERT when the key is new
\* (next_run_at = now, last_run_at NULL), UPDATE of the config columns otherwise.
UpsertRow(d, n, now) ==
    IF n.probe_key \notin DOMAIN d
    THEN [probe_type |-> n.probe_type,
          interval_seconds |-> n.interval_seconds,
          timeout_seconds |-> n.timeout_seconds,
          stale_after_seconds |-> n.stale_after_seconds,
          enabled |-> n.enabled,
          probe_config_json |-> n.probe_config_json,
          next_run_at |-> now,
          last_run_at |-> NULL]
    ELSE [d[n.probe_key] EXCEPT !.probe_type = n.probe_type,
                                !.interval_seconds = n.interval_seconds,
                                !.timeout_seconds = n.timeout_seconds,
                                !.stale_after_seconds = n.stale_after_seconds,
                                !.enabled = n.enabled,
                                !.probe_config_json = n.probe_config_json]

RECURSIVE UpsertAll(_, _, _)
UpsertAll(d, normed, now) ==
    IF normed = <<>> THEN d
    ELSE LET n == Head(normed)
             row == UpsertRow(d, n, now)
             d2 == [k \in DOMAIN d \cup {n.probe_key} |-> IF k = n.probe_key THEN row ELSE d[k]]
         IN UpsertAll(d2, Tail(normed), now)

\* UPDATE probe_definitions SET enabled = 0 WHERE probe_key NOT IN (desired_keys),
\* run only "if desired_keys".
DisableMissing(d, desired_keys) ==
    IF desired_keys # {}
    THEN [k \in DOMAIN d |-> IF k \notin desired_keys THEN [d[k] EXCEPT !.enabled = 0] ELSE d[k]]
    ELSE d

\* A sync that deletes the definitions the configuration omits, and their runs.
sync_purging(db, definitions, now) ==
    LET normed == [n \in 1..Len(definitions) |-> normalize_probe_definition(definitions[n])]
        desired_keys == {normed[n].probe_key : n \in 1..Len(normed)}
        d == UpsertAll(db.defs, normed, now)
    IN [db EXCEPT !.defs = [k \in DOMAIN d \cap desired_keys |-> d[k]],
                  !.runs = SelectSeq(db.runs, LAMBDA r : r.probe_key \in desired_keys)]

SyncRaises(definitions) == \E n \in 1..Len(definitions) : NormalizeRaises(definitions[n])

sync_probe_definitions(db, definitions, now) ==
    LET normed == [n \in 1..Len(definitions) |-> normalize_probe_definition(definitions[n])]
        desired_keys == {normed[n].probe_key : n \in 1..Len(normed)}
    IN [db EXCEPT !.defs = DisableMissing(UpsertAll(db.defs, normed, now), desired_keys)]

\* cfg = parsed if isinstance(parsed, dict), {} if not or if json.loads raised.
ConfigOf(parsed) == IF parsed.ok /\ isinstance_dict(parsed.v) THEN parsed.v ELSE EmptyObj

row_to_probe(key, row) ==
    [key |-> key,
        type |-> row.probe_type,
        interval_seconds |-> row.interval_seconds,
        timeout_seconds |-> row.timeout_seconds,
        stale_after_seconds |-> row.stale_after_seconds,
        enabled |-> row.enabled # 0,
        next_run_at |-> row.next_run_at,
        last_run_at |-> row.last_run_at,
        config |-> ConfigOf(json_loads(row.probe_config_json))]

\* A probe that is None.
NoProbe == [key |-> ""]

get_probe_definition(db, key) ==
    IF key \in DOMAIN db.defs THEN row_to_probe(key, db.defs[key]) ELSE NoProbe

\* A due test that leaves out "enabled = 1".
IsDueWhateverEnabled(row, now) == row.next_run_at = NULL \/ row.next_run_at <= now

\* A definition is due only until its first run.
IsDueOnce(row, now) ==
    /\ row.enabled = 1
    /\ row.last_run_at = NULL
    /\ (row.next_run_at = NULL \/ row.next_run_at <= now)

\* WHERE enabled = 1 AND (next_run_at IS NULL OR next_run_at <= now)
IsDue(row, now) == row.enabled = 1 /\ (row.next_run_at = NULL \/ row.next_run_at <= now)

\* An order by probe_key alone.
DueBeforeByKey(d, k1, k2) == KeyRank(k1) < KeyRank(k2)

\* ORDER BY COALESCE(next_run_at, '') ASC, probe_key ASC: NULL sorts first.
DueBefore(d, k1, k2) ==
    \/ d[k1].next_run_at < d[k2].next_run_at
    \/ d[k1].next_run_at = d[k2].next_run_at /\ KeyRank(k1) < KeyRank(k2)

RECURSIVE SortDue(_, _)
SortDue(d, ks) ==
    IF ks = {} THEN <<>>
    ELSE LET first == CHOOSE k \in ks : \A o \in ks \ {k} : DueBefore(d, k, o)
         IN <<first>> \o SortDue(d, ks \ {first})

list_due_probes(db, now) ==
    LET ks == SortDue(db.defs, {k \in DOMAIN db.defs : IsDue(db.defs[k], now)})
    IN [n \in 1..Len(ks) |-> row_to_probe(ks[n], db.defs[ks[n]])]

set_probe_next_run(db, key, next_run_at) ==
    [db EXCEPT !.defs = [k \in DOMAIN db.defs |->
        IF k = key THEN [db.defs[k] EXCEPT !.next_run_at = next_run_at] ELSE db.defs[k]]]

\* A save that inserts the run row and leaves the definition as it was.
save_probe_run_row_only(db, key, run, next_run_at) ==
    [db EXCEPT
        !.runs = Append(db.runs, [probe_key |-> key,
                                  started_at |-> run.started_at,
                                  ended_at |-> run.ended_at,
                                  ok |-> IF run.ok THEN 1 ELSE 0,
                                  status |-> run.status,
                                  latency_ms |-> run.latency_ms,
                                  error |-> run.error])]

\* A save that never moves next_run_at back.
save_probe_run_keeping_later(db, key, run, next_run_at) ==
    [db EXCEPT
        !.runs = Append(db.runs, [probe_key |-> key,
                                  started_at |-> run.started_at,
                                  ended_at |-> run.ended_at,
                                  ok |-> IF run.ok THEN 1 ELSE 0,
                                  status |-> run.status,
                                  latency_ms |-> run.latency_ms,
                                  error |-> run.error]),
        !.defs = [k \in DOMAIN db.defs |->
            IF k = key THEN [db.defs[k] EXCEPT !.last_run_at = run.ended_at,
                                               !.next_run_at = Max(@, next_run_at)]
            ELSE db.defs[k]]]

\* A save whose UPDATE has no WHERE: every definition takes the run's times.
save_probe_run_all_keys(db, key, run, next_run_at) ==
    [db EXCEPT
        !.runs = Append(db.runs, [probe_key |-> key,
                                  started_at |-> run.started_at,
                                  ended_at |-> run.ended_at,
                                  ok |-> IF run.ok THEN 1 ELSE 0,
                                  status |-> run.status,
                                  latency_ms |-> run.latency_ms,
                                  error |-> run.error]),
        !.defs = [k \in DOMAIN db.defs |->
            [db.defs[k] EXCEPT !.last_run_at = run.ended_at,
                               !.next_run_at = next_run_at]]]

\* A save that keeps one run row per key, the latest.
save_probe_run_latest_only(db, key, run, next_run_at) ==
    [db EXCEPT
        !.runs = Append(SelectSeq(db.runs, LAMBDA r : r.probe_key # key),
                        [probe_key |-> key,
                         started_at |-> run.started_at,
                         ended_at |-> run.ended_at,
                         ok |-> IF run.ok THEN 1 ELSE 0,
                         status |-> run.status,
                         latency_ms |-> run.latency_ms,
                         error |-> run.error]),
        !.defs = [k \in DOMAIN db.defs |->
            IF k = key THEN [db.defs[k] EXCEPT !.last_run_at = run.ended_at,
                                               !.next_run_at = next_run_at]
            ELSE db.defs[k]]]

\* INSERT INTO probe_runs, then UPDATE probe_definitions, then one commit,
\* all under the store lock.
save_probe_run(db, key, run, next_run_at) ==
    [db EXCEPT
        !.runs = Append(db.runs, [probe_key |-> key,
                                  started_at |-> run.started_at,
                                  ended_at |-> run.ended_at,
                                  ok |-> IF run.ok THEN 1 ELSE 0,
                                  status |-> run.status,
                                  latency_ms |-> run.latency_ms,
                                  error |-> run.error]),
        !.defs = [k \in DOMAIN db.defs |->
            IF k = key THEN [db.defs[k] EXCEPT !.last_run_at = run.ended_at,
                                               !.next_run_at = next_run_at]
            ELSE db.defs[k]]]

\* The ids of the rows of probe_runs with this key.
RunIds(rs, key) == {n \in 1..Len(rs) : rs[n].probe_key = key}

SetMax(S) == CHOOSE x \in S : \A y \in S : y <= x

\* LEFT JOIN probe_runs r ON r.id = (the highest id of the key): 0 when none.
LatestRunId(rs, key) == IF RunIds(rs, key) = {} THEN 0 ELSE SetMax(RunIds(rs, key))

\* One entry of get_latest_probes(now) per definition.
LatestEntry(db, key, now) ==
    LET row == db.defs[key]
        rid == LatestRunId(db.runs, key)
        ended == IF rid = 0 THEN NULL ELSE db.runs[rid].ended_at
        age_seconds == IF ended = NULL THEN NULL ELSE TruncSeconds(now - ended)
        stale == IF ended = NULL THEN TRUE ELSE age_seconds > row.stale_after_seconds
    IN [key |-> key,
        enabled |-> row.enabled # 0,
        stale_after_seconds |-> row.stale_after_seconds,
        next_run_at |-> row.next_run_at,
        last_run_at |-> row.last_run_at,
        run_id |-> rid,
        ended_at |-> ended,
        age_seconds |-> age_seconds,
        is_stale |-> stale]

get_latest_probes(db, now) == [k \in DOMAIN db.defs |-> LatestEntry(db, k, now)]

RECURSIVE DescIds(_)
DescIds(S) == IF S = {} THEN <<>> ELSE <<SetMax(S)>> \o DescIds(S \ {SetMax(S)})

\* ORDER BY id DESC LIMIT limit: [id, row] newest first.
get_probe_history(db, key, limit) ==
    LET ids == DescIds(RunIds(db.runs, key))
    IN [n \in 1..Min(limit, Len(ids)) |-> [id |-> ids[n], row |-> db.runs[ids[n]]]]

\* An audit that records every action as a success.
add_action_audit_as_success(db, row) ==
    [db EXCEPT !.audit = Append(db.audit,
        [timestamp_utc |-> row.timestamp_utc,
         actor |-> row.actor,
         remote_ip |-> row.remote_ip,
         reason |-> row.reason,
         target_type |-> row.target_type,
         target |-> row.target,
         action |-> row.action,
         ok |-> 1,
         return_code |-> 0,
         stderr |-> ""])]

add_action_audit(db, row) ==
    [db EXCEPT !.audit = Append(db.audit,
        [timestamp_utc |-> row.timestamp_utc,
         actor |-> row.actor,
         remote_ip |-> row.remote_ip,
         reason |-> row.reason,
         target_type |-> row.target_type,
         target |-> row.target,
         action |-> row.action,
         ok |-> IF row.ok THEN 1 ELSE 0,
         return_code |-> row.return_code,
         stderr |-> row.stderr])]

\* A read in insertion order.
read_action_audit_oldest_first(db, limit) ==
    LET n == Len(db.audit)
    IN [i \in 1..Min(limit, n) |-> [db.audit[i] EXCEPT !.ok = (@ # 0)]]

\* ORDER BY id DESC LIMIT limit, ok read back as bool(int(ok)).
read_action_audit(db, limit) ==
    LET n == Len(db.audit)
    IN [i \in 1..Min(limit, n) |-> [db.audit[n + 1 - i] EXCEPT !.ok = (@ # 0)]]

(***************************************************************************)
(* ProbeRunner.  What the network answers is the environment's choice.     *)
(***************************************************************************)
TcpOutcomes == {"connected", "refused"}

\* int(x) of a JSON value: an integer as it is; anything else raises.
IntRaises(x) == x.t # "int"

\* _probe_tcp: the result before run_probe wraps it.
probe_tcp(cfg, outcome) ==
    LET port == JGet(cfg, <<"p", "o", "r", "t">>, JInt(0))
    IN IF IntRaises(port)
       THEN [ok |-> FALSE, status |-> "error", error |-> "invalid literal for int()"]
       ELSE IF port.v <= 0
       THEN [ok |-> FALSE, status |-> "error", error |-> "tcp_check requires positive port"]
       ELSE IF outcome = "connected"
       THEN [ok |-> TRUE, status |-> "healthy", error |-> ""]
       ELSE [ok |-> FALSE, status |-> "degraded", error |-> "Connection refused"]

\* run_probe: started and ended are the two readings of the clock.
run_probe(probe, started, ended, outcome) ==
    LET result == IF probe.type = "tcp_check" THEN probe_tcp(probe.config, outcome)
                  ELSE [ok |-> FALSE, status |-> "error", error |-> "Unsupported probe type"]
    IN [started_at |-> started,
        ended_at |-> ended,
        latency_ms |-> (ended - started) * (1000 \div TicksPerSecond),
        ok |-> result.ok,
        status |-> result.status,
        error |-> result.error]

(***************************************************************************)
(* The configurations the process is started with.                         *)
(***************************************************************************)
PortCfg == JObj(<< <<<<"p", "o", "r", "t">>, JInt(22)>> >>)

DefA == [key |-> " a", type |-> "tcp_check", interval_seconds |-> 1,
         timeout_seconds |-> NULL, stale_after_seconds |-> NULL,
         enabled |-> TRUE, config |-> PortCfg]

DefB == [key |-> "b", type |-> "tcp_check", interval_seconds |-> 5,
         timeout_seconds |-> 3, stale_after_seconds |-> 10,
         enabled |-> TRUE, config |-> PortCfg]

DefBOff == [DefB EXCEPT !.enabled = FALSE]

DefNoKey == [DefB EXCEPT !.key = " "]

NoTargets == [services |-> {}, containers |-> {}, actions_service |-> {}, actions_container |-> {}]

WithProbes(ps) == [scheduled_probes |-> ps, targets |-> NoTargets]

ProbeConfigs == {WithProbes(<<>>), WithProbes(<<DefA>>), WithProbes(<<DefA, DefB>>),
                 WithProbes(<<DefNoKey>>)}

Keys == {"a", "b"}

(***************************************************************************)
(* Bounds of the model.                                                    *)
(***************************************************************************)
MaxClockSeconds == 5
TickStepSeconds == 5
MaxRuns == 2
MaxAudit == 2

Workers == {"w1"}

(***************************************************************************)
(* The process: start (RemoteControlApi.__init__ and main), stop, exit.    *)
(***************************************************************************)
\* The scheduler thread.  stop_i remembers which probe of the pass was being
\* executed when the stop event was set (0: none).
SchedOff == [pc |-> "off", stop |-> FALSE, due |-> <<>>, i |-> 0,
             tentative_next |-> NULL, started |-> NULL, run |-> <<>>, wake_at |-> NULL,
             stop_i |-> 0]

WorkerIdle == [pc |-> "idle", probe |-> NoProbe, started |-> NULL, run |-> <<>>, next_time |-> NULL]

Init ==
    /\ phase = "down"
    /\ config = WithProbes(<<>>)
    /\ admin_token = ""
    /\ defs = <<>>
    /\ runs = <<>>
    /\ audit = <<>>
    /\ clock = 0
    /\ sched = SchedOff
    /\ workers = [w \in Workers |-> WorkerIdle]
    /\ uncommitted = 0
    /\ last = [op |-> "none"]

\* RemoteControlApi.__init__ then SCHEDULER.start(): the store is reconciled
\* to the configuration before any thread runs.  A configuration that does
\* not normalize raises and the process does not come up.
StartWith(configs, tokens) ==
    /\ phase = "down"
    /\ \E c \in configs, tok \in tokens :
        IF SyncRaises(c.scheduled_probes)
        THEN /\ last' = [op |-> "start_failed"]
             /\ UNCHANGED <<phase, config, admin_token, defs, runs, audit, uncommitted, clock, sched, workers>>
        ELSE /\ Commit(sync_probe_definitions(DB, c.scheduled_probes, clock))
             /\ phase' = "up"
             /\ config' = c
             /\ admin_token' = tok
             /\ sched' = [SchedOff EXCEPT !.pc = "top"]
             /\ last' = [op |-> "sync"]
             /\ UNCHANGED <<clock, workers>>

Start == StartWith(ProbeConfigs, {"s3cret"})

\* ProbeScheduler.stop: the stop event is set.
Stop ==
    /\ phase = "up"
    /\ ~sched.stop
    /\ sched' = [sched EXCEPT !.stop = TRUE,
                              !.stop_i = IF sched.pc = "running" THEN sched.i ELSE 0]
    /\ last' = [op |-> "stop"]
    /\ UNCHANGED <<phase, config, admin_token, defs, runs, audit, uncommitted, clock, workers>>

\* The process ends (exit or crash): its threads end with it, the database stays.
Exit ==
    /\ phase = "up"
    /\ phase' = "down"
    /\ sched' = SchedOff
    /\ workers' = [w \in Workers |-> WorkerIdle]
    /\ last' = [op |-> "exit"]
    /\ runs' = Committed(runs, uncommitted)
    /\ uncommitted' = 0
    /\ UNCHANGED <<config, admin_token, defs, audit, clock>>

\* Time passes; the clock is sampled every TickStepSeconds.
Tick ==
    /\ clock + Seconds(TickStepSeconds) <= Seconds(MaxClockSeconds)
    /\ clock' = clock + Seconds(TickStepSeconds)
    /\ UNCHANGED <<phase, config, admin_token, defs, runs, audit, uncommitted, sched, workers, last>>

(***************************************************************************)
(* ProbeScheduler.run, one step per store operation or clock reading.      *)
(***************************************************************************)
tick_seconds == 2

\* What a thread keeps of a probe it was given: the fields it goes on to read
\* (the key, the interval and what run_probe takes).
Held(p) == [key |-> p.key, type |-> p.type, interval_seconds |-> p.interval_seconds,
            timeout_seconds |-> p.timeout_seconds, config |-> p.config]

\* Executions that hold or will write a run row.
InFlight == Cardinality({w \in Workers : workers[w].pc \in {"running", "save"}})
            + (IF sched.pc \in {"running", "save"} THEN 1 ELSE 0)

MayExecute == Len(runs) + InFlight < MaxRuns

\* while not self.stop_event.is_set(): now_iso = now_utc(); due = list_due_probes(now_iso)
SchedList ==
    /\ phase = "up" /\ sched.pc = "top"
    /\ IF sched.stop
       THEN sched' = [sched EXCEPT !.pc = "ended"]
       ELSE \E due \in {list_due_probes(DB, clock)} :
                sched' = [sched EXCEPT !.due = [n \in 1..Len(due) |-> Held(due[n])], !.i = 1,
                                       !.pc = IF due = <<>> THEN "wait" ELSE "set_next",
                                       !.wake_at = clock + Seconds(tick_seconds)]
    /\ last' = [op |-> "step"]
    /\ UNCHANGED <<phase, config, admin_token, defs, runs, audit, uncommitted, clock, workers>>

\* tentative_next = now + interval; set_probe_next_run(key, tentative_next);
\* run_probe reads its start time.
SchedSetNext ==
    /\ phase = "up" /\ sched.pc = "set_next"
    /\ MayExecute
    /\ LET probe == sched.due[sched.i]
           tentative_next == clock + Seconds(probe.interval_seconds)
       IN /\ Commit(set_probe_next_run(DB, probe.key, tentative_next))
          /\ sched' = [sched EXCEPT !.pc = "running", !.tentative_next = tentative_next,
                                    !.started = clock]
    /\ last' = [op |-> "step"]
    /\ UNCHANGED <<phase, config, admin_token, clock, workers>>

\* run_probe returns.
SchedRunEnd ==
    /\ phase = "up" /\ sched.pc = "running"
    /\ \E outcome \in TcpOutcomes :
        sched' = [sched EXCEPT !.pc = "save",
                               !.run = run_probe(sched.due[sched.i], sched.started, clock, outcome)]
    /\ last' = [op |-> "step"]
    /\ UNCHANGED <<phase, config, admin_token, defs, runs, audit, uncommitted, clock, workers>>

\* save_probe_run(key, run, tentative_next), then the next due probe or the wait.
SchedSave ==
    /\ phase = "up" /\ sched.pc = "save"
    /\ Commit(save_probe_run(DB, sched.due[sched.i].key, sched.run, sched.tentative_next))
    /\ sched' = [sched EXCEPT !.pc = IF sched.i < Len(sched.due) THEN "set_next" ELSE "wait",
                              !.i = sched.i + 1,
                              !.wake_at = clock + Seconds(tick_seconds),
                              !.run = <<>>, !.started = NULL, !.tentative_next = NULL]
    /\ last' = [op |-> "step"]
    /\ UNCHANGED <<phase, config, admin_token, clock, workers>>

\* self.stop_event.wait(self.tick_seconds) returns: the tick has passed or stop is set.
SchedWake ==
    /\ phase = "up" /\ sched.pc = "wait"
    /\ sched.stop \/ clock >= sched.wake_at
    /\ sched' = [sched EXCEPT !.pc = "top", !.due = <<>>, !.i = 0, !.wake_at = NULL]
    /\ last' = [op |-> "step"]
    /\ UNCHANGED <<phase, config, admin_token, defs, runs, audit, uncommitted, clock, workers>>

(***************************************************************************)
(* RemoteControlApi.run_probe_once on an HTTP worker thread.               *)
(***************************************************************************)
\* probe = get_probe_definition(key); 404 when there is none; else run_probe starts.
RunOnceBegin(w, key) ==
    /\ phase = "up" /\ workers[w].pc = "idle"
    /\ LET probe == get_probe_definition(DB, key)
       IN IF probe = NoProbe
          THEN /\ last' = [op |-> "run_once", key |-> key, status |-> 404]
               /\ UNCHANGED workers
          ELSE /\ MayExecute
               /\ workers' = [workers EXCEPT ![w] = [WorkerIdle EXCEPT !.pc = "running",
                                                                     !.probe = Held(probe),
                                                                     !.started = clock]]
               /\ last' = [op |-> "step"]
    /\ UNCHANGED <<phase, config, admin_token, defs, runs, audit, uncommitted, clock, sched>>

\* run_probe returns; next_time = now + interval.
RunOnceEnd(w) ==
    /\ phase = "up" /\ workers[w].pc = "running"
    /\ \E outcome \in TcpOutcomes :
        workers' = [workers EXCEPT ![w].pc = "save",
            ![w].run = run_probe(workers[w].probe, workers[w].started, clock, outcome),
            ![w].next_time = clock + Seconds(workers[w].probe.interval_seconds)]
    /\ last' = [op |-> "step"]
    /\ UNCHANGED <<phase, config, admin_token, defs, runs, audit, uncommitted, clock, sched>>

\* save_probe_run(key, run, next_time); 200.
RunOnceSave(w) ==
    /\ phase = "up" /\ workers[w].pc = "save"
    /\ Commit(save_probe_run(DB, workers[w].probe.key, workers[w].run, workers[w].next_time))
    /\ workers' = [workers EXCEPT ![w] = WorkerIdle]
    /\ last' = [op |-> "run_once", key |-> workers[w].probe.key, status |-> 200]
    /\ UNCHANGED <<phase, config, admin_token, clock, sched>>

Next ==
    \/ Start
    \/ Exit
    \/ Tick
    \/ SchedList
    \/ SchedSetNext
    \/ SchedRunEnd
    \/ SchedSave
    \/ SchedWake
    \/ \E w \in Workers, key \in Keys : RunOnceBegin(w, key)
    \/ \E w \in Workers : RunOnceEnd(w)
    \/ \E w \in Workers : RunOnceSave(w)

Spec == Init /\ [][Next]_vars

(***************************************************************************)
(* The action gateway: run_cmd and RemoteControlApi.execute_action.        *)
(***************************************************************************)
\* What the spawned process does: it exits with a code, overruns the timeout,
\* or cannot be spawned.
CmdOutcomes ==
    {[kind |-> "exit", returncode |-> 0, stdout |-> "", stderr |-> ""],
     [kind |-> "exit", returncode |-> 5, stdout |-> "", stderr |-> "Unit not found. "],
     [kind |-> "timeout", returncode |-> 0, stdout |-> "", stderr |-> ""],
     [kind |-> "spawn_error", returncode |-> 0, stdout |-> "", stderr |-> "No such file: sudo"]}

\* A run_cmd that reports a command that overran its timeout as done.
run_cmd_timeout_ok(command, timeout, outcome) ==
    CASE outcome.kind = "exit" ->
            [ok |-> outcome.returncode = 0, return_code |-> outcome.returncode,
             stdout |-> strip(outcome.stdout), stderr |-> strip(outcome.stderr)]
      [] outcome.kind = "timeout" ->
            [ok |-> TRUE, return_code |-> 0, stdout |-> "", stderr |-> ""]
      [] OTHER ->
            [ok |-> FALSE, return_code |-> -1, stdout |-> "", stderr |-> outcome.stderr]

run_cmd(command, timeout, outcome) ==
    CASE outcome.kind = "exit" ->
            [ok |-> outcome.returncode = 0, return_code |-> outcome.returncode,
             stdout |-> strip(outcome.stdout), stderr |-> strip(outcome.stderr)]
      [] outcome.kind = "timeout" ->
            [ok |-> FALSE, return_code |-> -1, stdout |-> "",
             stderr |-> "Command timed out after 45s"]
      [] OTHER ->
            [ok |-> FALSE, return_code |-> -1, stdout |-> "", stderr |-> outcome.stderr]

configured_services(cfg) == cfg.targets.services
configured_containers(cfg) == cfg.targets.containers

\* self.config.get("actions", {}).get(target_type, [])
allowed_actions(cfg, target_type) ==
    CASE target_type = "service" -> cfg.targets.actions_service
      [] target_type = "container" -> cfg.targets.actions_container
      [] OTHER -> {}

\* The validation of execute_action: status 0 and the command when it passes,
\* else the status and error it returns.  An error is the pieces of its
\* f-string, in order.
Rejected(status, error) == [status |-> status, error |-> error, command |-> <<>>]

\* A validation that looks the target up before the action.
validate_action_target_first(cfg, req) ==
    LET target_type == strip(req.target_type)
        action == strip(req.action)
        target == strip(req.target)
    IN IF target_type \notin {"service", "container"}
       THEN Rejected(400, <<"Invalid target_type. Use service|container.">>)
       ELSE IF target = ""
       THEN Rejected(400, <<"Target is required.">>)
       ELSE IF target_type = "service" /\ target \notin configured_services(cfg)
       THEN Rejected(403, <<"Service '", target, "' is not in allowlist.">>)
       ELSE IF target_type = "container" /\ target \notin configured_containers(cfg)
       THEN Rejected(403, <<"Container '", target, "' is not in allowlist.">>)
       ELSE IF action \notin allowed_actions(cfg, target_type)
       THEN Rejected(403, <<"Action '", action, "' is not allowed for ", target_type, ".">>)
       ELSE [status |-> 0, error |-> <<>>,
             command |-> <<"sudo", "-n",
                           IF target_type = "service" THEN "systemctl" ELSE "docker",
                           action, target>>]

\* A validation that checks the action and not the target.
validate_action_only(cfg, req) ==
    LET target_type == strip(req.target_type)
        action == strip(req.action)
        target == strip(req.target)
    IN IF target_type \notin {"service", "container"}
       THEN Rejected(400, <<"Invalid target_type. Use service|container.">>)
       ELSE IF target = ""
       THEN Rejected(400, <<"Target is required.">>)
       ELSE IF action \notin allowed_actions(cfg, target_type)
       THEN Rejected(403, <<"Action '", action, "' is not allowed for ", target_type, ".">>)
       ELSE [status |-> 0, error |-> <<>>,
             command |-> <<"sudo", "-n",
                           IF target_type = "service" THEN "systemctl" ELSE "docker",
                           action, target>>]

validate_action(cfg, req) ==
    LET target_type == strip(req.target_type)
        action == strip(req.action)
        target == strip(req.target)
    IN IF target_type \notin {"service", "container"}
       THEN Rejected(400, <<"Invalid target_type. Use service|container.">>)
       ELSE IF target = ""
       THEN Rejected(400, <<"Target is required.">>)
       ELSE IF action \notin allowed_actions(cfg, target_type)
       THEN Rejected(403, <<"Action '", action, "' is not allowed for ", target_type, ".">>)
       ELSE IF target_type = "service"
       THEN IF target \notin configured_services(cfg)
            THEN Rejected(403, <<"Service '", target, "' is not in allowlist.">>)
            ELSE [status |-> 0, error |-> <<>>,
                  command |-> <<"sudo", "-n", "systemctl", action, target>>]
       ELSE IF target \notin configured_containers(cfg)
            THEN Rejected(403, <<"Container '", target, "' is not in allowlist.">>)
            ELSE [status |-> 0, error |-> <<>>,
                  command |-> <<"sudo", "-n", "docker", action, target>>]

\* execute_action: [status, response, command, db]; command is <<>> when no
\* subprocess was spawned.
execute_action(db, cfg, actor, remote_ip, req, now, outcome) ==
    LET v == validate_action(cfg, req)
    IN IF v.status # 0
       THEN [status |-> v.status, response |-> [ok |-> FALSE, error |-> v.error],
             command |-> <<>>, db |-> db]
       ELSE LET result == run_cmd(v.command, 45, outcome)
                response == [ok |-> result.ok,
                             target_type |-> strip(req.target_type),
                             target |-> strip(req.target),
                             action |-> strip(req.action),
                             reason |-> strip(req.reason),
                             stdout |-> result.stdout,
                             stderr |-> result.stderr,
                             return_code |-> result.return_code,
                             timestamp_utc |-> now]
            IN [status |-> IF result.ok THEN 200 ELSE 500,
                response |-> response,
                command |-> v.command,
                db |-> add_action_audit(db,
                        [timestamp_utc |-> response.timestamp_utc,
                         actor |-> actor,
                         remote_ip |-> remote_ip,
                         target_type |-> response.target_type,
                         target |-> response.target,
                         action |-> response.action,
                         reason |-> response.reason,
                         ok |-> result.ok,
                         return_code |-> result.return_code,
                         stderr |-> result.stderr])]

Allowlist == [services |-> {"nginx"}, containers |-> {"web"},
              actions_service |-> {"restart"}, actions_container |-> {"restart"}]

GatewayConfigs == {[scheduled_probes |-> <<>>, targets |-> Allowlist],
                   [scheduled_probes |-> <<DefA>>,
                    targets |-> [Allowlist EXCEPT !.actions_service = {}]]}

ActionRequests ==
    [target_type : {"service", "container", "vm"},
     action : {"restart", " restart", "reload"},
     target : {"nginx", "nginx ", "web", ""},
     reason : {"deploy"}]

StartGateway == StartWith(GatewayConfigs, {"s3cret"})

\* One call of execute_action, start to return.
ExecuteActionWith(requests, outcomes) ==
    /\ phase = "up"
    /\ Len(audit) < MaxAudit
    /\ \E req \in requests, outcome \in outcomes :
        LET r == execute_action(DB, config, "ops", "10.0.0.9", req, clock, outcome)
        IN /\ Commit(r.db)
           /\ last' = [op |-> "action", req |-> req, status |-> r.status,
                       response |-> r.response, command |-> r.command,
                       outcome |-> IF r.command = <<>> THEN [kind |-> "none"] ELSE outcome,
                       audit_before |-> Len(audit)]
    /\ UNCHANGED <<phase, config, admin_token, clock, sched, workers>>

ExecuteAction == ExecuteActionWith(ActionRequests, CmdOutcomes)

NextGateway ==
    \/ StartGateway
    \/ Exit
    \/ ExecuteAction

SpecGateway == Init /\ [][NextGateway]_vars

(***************************************************************************)
(* The HTTP front door: Handler._token_ok, do_GET, do_POST.  A request is  *)
(* served start to end here: the handler it reaches runs as one step.      *)
(*                                                                         *)
(* The request path is base ++ suffix ++ query: base is one of the names   *)
(* below (none is a prefix of another), suffix is further path characters  *)
(* and query starts with "?" when not empty.                               *)
(***************************************************************************)
HealthPath == "/api/v1/health"

Path(base, suffix, query) == [base |-> base, suffix |-> suffix, query |-> query]

\* self.path.startswith("/api/v1/health")
StartsWithHealth(path) == path.base = HealthPath

\* urlparse(self.path).path == route
PathIs(path, route) == path.base = route /\ path.suffix = ""

\* RemoteControlApi.require_token; compare_digest is equality.
require_token(token, provided) ==
    IF token = "" THEN FALSE ELSE provided = token

\* Handler._token_ok
token_ok(token, req) ==
    IF StartsWithHealth(req.path) THEN TRUE
    ELSE require_token(token, strip(req.token))

\* run_probe_once from get_probe_definition to save_probe_run, uninterrupted.
RunFound(db, key, probe, now, outcome) ==
    IF probe = NoProbe
    THEN [status |-> 404, db |-> db]
    ELSE [status |-> 200,
          db |-> save_probe_run(db, key, run_probe(probe, now, now, outcome),
                                now + Seconds(probe.interval_seconds))]

run_probe_once(db, key, now, outcome) ==
    RunFound(db, key, get_probe_definition(db, key), now, outcome)

Answer(status, handler, db) == [status |-> status, handler |-> handler, db |-> db]

\* self._send(status, response) of what the API returned.
Send(handler, r) == Answer(r.status, handler, r.db)

\* do_GET after the token check.
route_get(db, cfg, req, now) ==
    IF PathIs(req.path, HealthPath) THEN Answer(200, "health", db)
    ELSE IF PathIs(req.path, "/api/v1/status") THEN Answer(200, "status", db)
    ELSE IF PathIs(req.path, "/api/v1/audit") THEN Answer(200, "audit", db)
    ELSE IF PathIs(req.path, "/api/v1/probes/history")
         THEN IF req.path.query = "?key=a" THEN Answer(200, "history", db)
              ELSE Answer(400, "none", db)
    ELSE IF PathIs(req.path, "/api/v1/config") THEN Answer(200, "config", db)
    ELSE Answer(404, "none", db)

\* do_POST after the token check.
route_post(db, cfg, req, now, cmd_outcome, tcp_outcome) ==
    IF ~(PathIs(req.path, "/api/v1/action") \/ PathIs(req.path, "/api/v1/probes/run"))
    THEN Answer(404, "none", db)
    ELSE IF req.body.kind \in {"empty", "too_large"} THEN Answer(400, "none", db)
    ELSE IF req.body.kind = "not_json" THEN Answer(400, "none", db)
    ELSE IF req.body.kind # "object" THEN Answer(400, "none", db)
    ELSE IF PathIs(req.path, "/api/v1/action")
         THEN Send("action",
                   execute_action(db, cfg, "unknown", "10.0.0.9", req.body, now, cmd_outcome))
    ELSE IF strip(req.body.key) = "" THEN Answer(400, "none", db)
    ELSE Send("probes_run", run_probe_once(db, strip(req.body.key), now, tcp_outcome))

\* do_GET / do_POST
handle(db, cfg, token, req, now, cmd_outcome, tcp_outcome) ==
    IF ~token_ok(token, req) THEN Answer(401, "none", db)
    ELSE IF req.method = "GET" THEN route_get(db, cfg, req, now)
    ELSE route_post(db, cfg, req, now, cmd_outcome, tcp_outcome)

NoBody == [kind |-> "empty", target_type |-> "", action |-> "", target |-> "",
           reason |-> "", key |-> ""]

Bodies == {NoBody,
           [NoBody EXCEPT !.kind = "not_json"],
           [NoBody EXCEPT !.kind = "object", !.target_type = "service",
                          !.action = "restart", !.target = "nginx"],
           [NoBody EXCEPT !.kind = "object", !.key = " a"]}

Paths == {Path(HealthPath, "", ""), Path(HealthPath, "", "?key=a"), Path(HealthPath, "z", ""),
          Path("/api/v1/status", "", ""), Path("/api/v1/audit", "", ""),
          Path("/api/v1/probes/history", "", "?key=a"), Path("/api/v1/probes/history", "", ""),
          Path("/api/v1/config", "", ""), Path("/api/v1/action", "", ""),
          Path("/api/v1/probes/run", "", ""), Path("/api/v1/action", "z", ""),
          Path("/", "", "")}

HeaderTokens == {"", "s3cret", " s3cret", "wrong"}

PostPaths == {p \in Paths : p.base \in {"/api/v1/action", "/api/v1/probes/run"}}

HttpRequests ==
    [method : {"GET", "POST"}, path : Paths, token : HeaderTokens, body : {NoBody}]
    \cup [method : {"POST"}, path : PostPaths, token : HeaderTokens, body : Bodies]

\* What the environment answers while a request is served.
HttpOutcomes ==
    {[cmd |-> [kind |-> "exit", returncode |-> 0, stdout |-> "", stderr |-> ""],
      tcp |-> "connected"],
     [cmd |-> [kind |-> "timeout", returncode |-> 0, stdout |-> "", stderr |-> ""],
      tcp |-> "refused"]}

HttpConfigs == {[scheduled_probes |-> <<DefA>>, targets |-> Allowlist]}

StartHttp == StartWith(HttpConfigs, {"", "s3cret"})

\* One request, from the token check to the response.
Respond(req, r) ==
    /\ Len(r.db.audit) + Len(r.db.runs) <= MaxAudit
    /\ Commit(r.db)
    /\ last' = [op |-> "http", req |-> req, status |-> r.status, handler |-> r.handler]

HttpRequest ==
    /\ phase = "up"
    /\ \E req \in HttpRequests, o \in HttpOutcomes :
        Respond(req, handle(DB, config, admin_token, req, clock, o.cmd, o.tcp))
    /\ UNCHANGED <<phase, config, admin_token, clock, sched, workers>>

NextHttp ==
    \/ StartHttp
    \/ Exit
    \/ HttpRequest

SpecHttp == Init /\ [][NextHttp]_vars

(***************************************************************************)
(* Restarts with changing configurations, on-demand runs and actions:      *)
(* what sync_probe_definitions meets in a database that has history.       *)
(***************************************************************************)
DefBSlowOff == [DefB EXCEPT !.enabled = FALSE, !.interval_seconds = 7,
                            !.stale_after_seconds = NULL]

WithProbesAndTargets(ps) == [scheduled_probes |-> ps, targets |-> Allowlist]

SyncConfigs == {WithProbesAndTargets(<<>>), WithProbesAndTargets(<<DefA>>),
                WithProbesAndTargets(<<DefA, DefB>>), WithProbesAndTargets(<<DefBSlowOff>>)}

StartSync == StartWith(SyncConfigs, {"s3cret"})

RestartRequests == {[target_type |-> "service", action |-> "restart", target |-> "nginx",
                     reason |-> "deploy"]}

ExecuteRestart ==
    ExecuteActionWith(RestartRequests, {o \in CmdOutcomes : o.kind = "timeout"})

NextSync ==
    \/ StartSync
    \/ Exit
    \/ Tick
    \/ ExecuteRestart
    \/ \E w \in Workers, key \in Keys : RunOnceBegin(w, key)
    \/ \E w \in Workers : RunOnceEnd(w)
    \/ \E w \in Workers : RunOnceSave(w)

SpecSync == Init /\ [][NextSync]_vars

(***************************************************************************)
(* get_latest_probes read at every age of the latest run, half a second    *)
(* at a time.  The database is one definition synced at time 0 and the     *)
(* runs saved for it.                                                      *)
(***************************************************************************)
MaxStaleTicks == 24

EmptyDB == [defs |-> <<>>, runs |-> <<>>, audit |-> <<>>]

StaleDefs == {DefB, [DefB EXCEPT !.stale_after_seconds = 11],
              [DefB EXCEPT !.stale_after_seconds = 1]}

\* The (started, ended) readings of the runs saved, oldest first.
StaleRunTimes == {<<>>, << <<0, 0>> >>, << <<0, 1>> >>, << <<0, 0>>, <<1, 1>> >>}

\* One run of the probe, started and ended at the readings given, and saved.
SaveRun(db, probe, time) ==
    save_probe_run(db, probe.key, run_probe(probe, time[1], time[2], "connected"),
                   time[2] + Seconds(probe.interval_seconds))

RECURSIVE SaveRuns(_, _, _)
SaveRuns(db, d, times) ==
    IF times = <<>> THEN db
    ELSE SaveRuns(SaveRun(db, get_probe_definition(db, strip(d.key)), times[1]),
                  d, Tail(times))

InitStale ==
    /\ uncommitted = 0
    /\ phase = "up"
    /\ admin_token = "s3cret"
    /\ \E d \in StaleDefs, times \in StaleRunTimes :
        LET db == SaveRuns(sync_probe_definitions(EmptyDB, <<d>>, 0), d, times)
        IN /\ config = WithProbes(<<d>>)
           /\ defs = db.defs
           /\ runs = db.runs
           /\ audit = db.audit
    /\ clock = 1
    /\ sched = SchedOff
    /\ workers = [w \in Workers |-> WorkerIdle]
    /\ last = [op |-> "none"]

StaleTick ==
    /\ clock < MaxStaleTicks
    /\ clock' = clock + 1
    /\ UNCHANGED <<phase, config, admin_token, defs, runs, audit, uncommitted, sched, workers, last>>

\* collect_status: now_iso = now_utc(); get_latest_probes(now_iso).
GetLatest ==
    /\ phase = "up"
    /\ last' = [op |-> "latest", now |-> clock, out |-> get_latest_probes(DB, clock)]
    /\ UNCHANGED <<phase, config, admin_token, defs, runs, audit, uncommitted, clock, sched, workers>>

NextStale ==
    \/ StaleTick
    \/ GetLatest

SpecStale == InitStale /\ [][NextStale]_vars

(***************************************************************************)
(* Probe configs of every JSON shape, synced and read back.                *)
(***************************************************************************)
HostCfg == JObj(<< <<<<"h", "o", "s", "t">>, JStr(<<"a", "\"", "b", "\\", " ", "U+00e9">>)>>,
                   <<<<"p", "o", "r", "t">>, JInt(8080)>> >>)

NestedCfg == JObj(<< <<<<"n">>, JInt(-5)>>,
                     <<<<"o", "k">>, JBool(TRUE)>>,
                     <<<<"z">>, JNull>>,
                     <<<<"l">>, JArr(<<JInt(200), JStr(<<"x">>), JArr(<<>>), JBool(FALSE)>>)>>,
                     <<<<>>, JObj(<< <<<<"U+00e9", "\"">>, EmptyObj>> >>)>> >>)

ProbeConfigValues == {EmptyObj, PortCfg, HostCfg, NestedCfg,
                      JArr(<<JInt(1)>>), JStr(<<"x">>), JNull, JInt(7)}

JsonConfigs ==
    {WithProbes(<<[DefA EXCEPT !.config = c]>>) : c \in ProbeConfigValues}
    \cup {WithProbes(<<[DefA EXCEPT !.config = HostCfg], [DefB EXCEPT !.config = NestedCfg]>>),
          WithProbes(<<[DefB EXCEPT !.config = HostCfg]>>),
          WithProbes(<<[DefB EXCEPT !.config = JNull]>>),
          WithProbes(<<[DefA EXCEPT !.config = PortCfg], [DefA EXCEPT !.config = HostCfg]>>)}

StartConfig == StartWith(JsonConfigs, {"s3cret"})

GetDefinition ==
    /\ phase = "up"
    /\ \E key \in Keys :
        last' = [op |-> "get_def", key |-> key, probe |-> get_probe_definition(DB, key)]
    /\ UNCHANGED <<phase, config, admin_token, defs, runs, audit, uncommitted, clock, sched, workers>>

NextConfig ==
    \/ StartConfig
    \/ Exit
    \/ GetDefinition

SpecConfig == Init /\ [][NextConfig]_vars

(***************************************************************************)
(* The privileged helper: PrivilegedApi of privileged_helper.py.  It reads *)
(* the same configuration document as the control plane, into lists it     *)
(* normalizes itself.                                                      *)
(***************************************************************************)
\* {str(x).strip() for x in raw if str(x).strip()}
Normalized(raw) == {strip(x) : x \in raw} \ {""}

helper_configured_services(cfg) == Normalized(cfg.targets.services)
helper_configured_containers(cfg) == Normalized(cfg.targets.containers)

helper_allowed_actions(cfg, target_type) ==
    CASE target_type = "service" -> Normalized(cfg.targets.actions_service)
      [] target_type = "container" -> Normalized(cfg.targets.actions_container)
      [] OTHER -> {}

\* A helper run_cmd that reports every command as done.
helper_run_cmd_always_ok(command, timeout, outcome) ==
    [ok |-> TRUE, return_code |-> 0, stdout |-> "", stderr |-> ""]

\* run_cmd of privileged_helper.py.
helper_run_cmd(command, timeout, outcome) ==
    CASE outcome.kind = "exit" ->
            [ok |-> outcome.returncode = 0, return_code |-> outcome.returncode,
             stdout |-> strip(outcome.stdout), stderr |-> strip(outcome.stderr)]
      [] outcome.kind = "timeout" ->
            [ok |-> FALSE, return_code |-> -1, stdout |-> "",
             stderr |-> IF timeout = 45 THEN "Command timed out after 45s"
                        ELSE "Command timed out after 20s"]
      [] OTHER ->
            [ok |-> FALSE, return_code |-> -1, stdout |-> "", stderr |-> outcome.stderr]

\* The helper's refusal envelope; stderr is the pieces of its f-string.
Refused(stderr) ==
    [result |-> [ok |-> FALSE, return_code |-> -1, stdout |-> "", stderr |-> stderr],
     command |-> <<>>]

Ran(command, result) == [result |-> result, command |-> command]

\* A helper that looks the action up and not the target.
helper_execute_any_target(cfg, req, outcome) ==
    LET op == strip(req.op)
        action == strip(req.action)
        target == strip(req.target)
        target_type == IF op = "service_action" THEN "service" ELSE "container"
    IN IF op = "container_status_map"
       THEN Ran(<<"docker", "ps", "-a", "--format">>,
                helper_run_cmd(<<"docker", "ps", "-a", "--format">>, 20, outcome))
       ELSE IF op \notin {"service_action", "container_action"}
       THEN Refused(<<"Unsupported operation.">>)
       ELSE IF target = ""
       THEN Refused(<<"Target is required.">>)
       ELSE IF action \notin helper_allowed_actions(cfg, target_type)
       THEN Refused(<<"Action '", action, "' is not allowed for ", target_type, ".">>)
       ELSE IF op = "service_action"
       THEN Ran(<<"systemctl", action, target>>,
                helper_run_cmd(<<"systemctl", action, target>>, 45, outcome))
       ELSE Ran(<<"docker", action, target>>,
                helper_run_cmd(<<"docker", action, target>>, 45, outcome))

\* PrivilegedApi.execute: the envelope it returns and the command it spawned
\* (<<>> when none).  _container_status_map adds the parsed table to the
\* envelope of a successful docker ps; the table is not modelled.
helper_execute(cfg, req, outcome) ==
    LET op == strip(req.op)
        action == strip(req.action)
        target == strip(req.target)
    IN IF op = "container_status_map"
       THEN Ran(<<"docker", "ps", "-a", "--format">>,
                helper_run_cmd(<<"docker", "ps", "-a", "--format">>, 20, outcome))
       ELSE IF op \notin {"service_action", "container_action"}
       THEN Refused(<<"Unsupported operation.">>)
       ELSE IF target = ""
       THEN Refused(<<"Target is required.">>)
       ELSE IF op = "service_action"
       THEN IF action \notin helper_allowed_actions(cfg, "service")
            THEN Refused(<<"Action '", action, "' is not allowed for service.">>)
            ELSE IF target \notin helper_configured_services(cfg)
            THEN Refused(<<"Service '", target, "' is not in allowlist.">>)
            ELSE Ran(<<"systemctl", action, target>>,
                     helper_run_cmd(<<"systemctl", action, target>>, 45, outcome))
       ELSE IF action \notin helper_allowed_actions(cfg, "container")
            THEN Refused(<<"Action '", action, "' is not allowed for container.">>)
            ELSE IF target \notin helper_configured_containers(cfg)
            THEN Refused(<<"Container '", target, "' is not in allowlist.">>)
            ELSE Ran(<<"docker", action, target>>,
                     helper_run_cmd(<<"docker", action, target>>, 45, outcome))

\* Configuration documents: the allowlist as written, one with an entry
\* padded with a space, one with no service action.
HelperConfigs ==
    {[scheduled_probes |-> <<>>, targets |-> Allowlist],
     [scheduled_probes |-> <<>>, targets |-> [Allowlist EXCEPT !.services = {"nginx "}]],
     [scheduled_probes |-> <<>>, targets |-> [Allowlist EXCEPT !.actions_service = {}]]}

HelperRequests ==
    [op : {"service_action", " service_action", "container_action",
           "container_status_map", "reboot"},
     action : {"restart", " restart", "reload"},
     target : {"nginx", "nginx ", "web", ""}]

\* PrivilegedApi.__init__: the helper reads its configuration.
HelperStart ==
    /\ phase = "down"
    /\ \E c \in HelperConfigs : config' = c
    /\ phase' = "up"
    /\ last' = [op |-> "helper_start"]
    /\ UNCHANGED <<admin_token, defs, runs, audit, uncommitted, clock, sched, workers>>

Executed(req, outcome, r) ==
    last' = [op |-> "helper", req |-> req, result |-> r.result, command |-> r.command,
             outcome |-> IF r.command = <<>> THEN [kind |-> "none"] ELSE outcome]

\* One request served by API.execute.
HelperExecute ==
    /\ phase = "up"
    /\ \E req \in HelperRequests, outcome \in CmdOutcomes :
        Executed(req, outcome, helper_execute(config, req, outcome))
    /\ UNCHANGED <<phase, config, admin_token, defs, runs, audit, uncommitted, clock, sched, workers>>

NextHelper ==
    \/ HelperStart
    \/ Exit
    \/ HelperExecute

SpecHelper == Init /\ [][NextHelper]_vars

(***************************************************************************)
(* Handler.handle of privileged_helper.py: one request per connection.     *)
(* What a client sends is n bytes without a newline, then a newline or the *)
(* end of the connection; kind says what json.loads makes of the n bytes.  *)
(***************************************************************************)
DEFAULT_MAX_BODY_BYTES == 16384

\* env_int of privileged_helper.py: the default when the variable is unset,
\* empty or no integer.
helper_env_int(raw, default_value) == IF raw.given THEN raw.v ELSE default_value

\* max(1024, env_int("RC_HELPER_MAX_BODY_BYTES", DEFAULT_MAX_BODY_BYTES))
max_body_of(raw) == Max(1024, helper_env_int(raw, DEFAULT_MAX_BODY_BYTES))

Sent(stream) == stream.n + (IF stream.newline THEN 1 ELSE 0)

\* rfile.readline(limit): up to the newline, the limit or the end of the connection.
readline(stream, limit) ==
    [len |-> Min(limit, Sent(stream)),
     newline |-> stream.newline /\ Sent(stream) <= limit]

\* if len(raw) > (max_body + 1)
helper_too_large(raw, max_body) == raw.len > max_body + 1

NoReply == [response |-> "none", parsed |-> 0, result |-> Refused(<<>>)]

Reply(stderr) == [response |-> "refused", parsed |-> 0, result |-> Refused(<<stderr>>)]

\* The bytes handed to json.loads: raw less its newline.
Parsed(raw, stream, r) ==
    [r EXCEPT !.parsed = raw.len - (IF raw.newline THEN 1 ELSE 0)]

helper_handle_raw(cfg, max_body, raw, stream, req, outcome) ==
    IF raw.len = 0 THEN NoReply
    ELSE IF helper_too_large(raw, max_body) THEN Reply("Request body too large.")
    ELSE IF stream.kind = "not_json"
         THEN Parsed(raw, stream, Reply("Invalid JSON payload."))
    ELSE IF stream.kind = "not_object"
         THEN Parsed(raw, stream, Reply("Payload must be an object."))
    ELSE Parsed(raw, stream, [response |-> "executed", parsed |-> 0,
                              result |-> helper_execute(cfg, req, outcome)])

helper_handle(cfg, env, stream, req, outcome) ==
    helper_handle_raw(cfg, max_body_of(env), readline(stream, max_body_of(env) + 2),
                      stream, req, outcome)

\* RC_HELPER_MAX_BODY_BYTES: unset, below the floor, at it and above it.
BodyEnvs == {[given |-> FALSE, v |-> 0], [given |-> TRUE, v |-> 0],
             [given |-> TRUE, v |-> 1024], [given |-> TRUE, v |-> 2048]}

\* Body lengths around the cap, and the shortest bodies.
BodyLengths(env) ==
    {0, 1, 2} \cup {max_body_of(env) + d : d \in {-1, 0, 1, 2, 3}}

\* The empty text is no JSON, a one-byte body is no object.
BodyKinds(n) ==
    IF n = 0 THEN {"not_json"}
    ELSE IF n = 1 THEN {"not_json", "not_object"}
    ELSE {"not_json", "not_object", "object"}

\* A body that is no object asks for nothing.
NoRequest == [op |-> "", action |-> "", target |-> ""]

BodyRequests ==
    {[op |-> "service_action", action |-> "restart", target |-> "nginx"],
     [op |-> "reboot", action |-> "restart", target |-> "nginx"]}

HelperHandle ==
    /\ phase = "up"
    /\ \E env \in BodyEnvs, newline \in BOOLEAN, req \in BodyRequests :
       \E n \in BodyLengths(env) :
       \E kind \in BodyKinds(n) :
       \E outcome \in {o \in CmdOutcomes : o.kind = "exit"} :
         LET stream == [n |-> n, newline |-> newline, kind |-> kind]
         IN last' = [op |-> "helper_handle", env |-> env, stream |-> stream,
                     req |-> IF kind = "object" THEN req ELSE NoRequest,
                     reply |-> helper_handle(config, env, stream, req, outcome)]
    /\ UNCHANGED <<phase, config, admin_token, defs, runs, audit, uncommitted, clock, sched, workers>>

NextHelperBody ==
    \/ HelperStart
    \/ Exit
    \/ HelperHandle

SpecHelperBody == Init /\ [][NextHelperBody]_vars

(***************************************************************************)
(* list_due_probes read over tables of up to three definitions, with       *)
(* every mix of enabled and next_run_at (NULL included, which the schema   *)
(* allows).                                                                *)
(***************************************************************************)
DueKeys == {"a", "b", "c"}

DueTimes == {NULL, 0, Seconds(5), Seconds(10)}

\* The rows of probe_definitions with DefB's columns.
DueRows ==
    {[UpsertRow(<<>>, normalize_probe_definition(DefB), 0)
        EXCEPT !.enabled = e, !.next_run_at = t] : e \in {0, 1}, t \in DueTimes}

InitDue ==
    /\ uncommitted = 0
    /\ phase = "up"
    /\ config = WithProbes(<<>>)
    /\ admin_token = "s3cret"
    /\ \E present \in SUBSET DueKeys : \E table \in [present -> DueRows] : defs = table
    /\ runs = <<>>
    /\ audit = <<>>
    /\ clock = 0
    /\ sched = SchedOff
    /\ workers = [w \in Workers |-> WorkerIdle]
    /\ last = [op |-> "none"]

KeysOf(out) == [n \in 1..Len(out) |-> out[n].key]

\* list_due_probes(now_iso): the keys of what it returns, in order.
ListDue ==
    /\ last' = [op |-> "due", now |-> clock, keys |-> KeysOf(list_due_probes(DB, clock))]
    /\ UNCHANGED <<phase, config, admin_token, defs, runs, audit, uncommitted, clock, sched, workers>>

NextDue ==
    \/ Tick
    \/ ListDue

SpecDue == InitDue /\ [][NextDue]_vars

(***************************************************************************)
(* The scheduler and its stop event: main sets it when serve_forever ends, *)
(* joins the thread for at most 5 seconds and returns.                     *)
(***************************************************************************)
CancelConfigs == {WithProbes(<<DefA>>), WithProbes(<<DefA, DefB>>)}

StartCancel == StartWith(CancelConfigs, {"s3cret"})

NextCancel ==
    \/ StartCancel
    \/ Stop
    \/ Exit
    \/ Tick
    \/ SchedList
    \/ SchedSetNext
    \/ SchedRunEnd
    \/ SchedSave
    \/ SchedWake

SpecCancel == Init /\ [][NextCancel]_vars

(***************************************************************************)
(* The store under definitions whose numbers are absent, below the minima  *)
(* or above them, with the scheduler writing to the same rows.             *)
(***************************************************************************)
ClampDefs ==
    [key : {" a"}, type : {"tcp_check"}, interval_seconds : {NULL, -3, 70},
     timeout_seconds : {NULL, 0}, stale_after_seconds : {NULL, 3}, enabled : {TRUE},
     config : {PortCfg}]

ClampDefB == [DefB EXCEPT !.key = "b ", !.interval_seconds = 70, !.stale_after_seconds = NULL]

\* One definition, or two of one key, or one of another key.
ClampConfigs ==
    {WithProbes(<<d>>) : d \in ClampDefs}
    \cup {WithProbes(<<d, [d EXCEPT !.interval_seconds = 4, !.stale_after_seconds = NULL]>>) :
            d \in {x \in ClampDefs : x.timeout_seconds = NULL}}
    \cup {WithProbes(<<ClampDefB>>)}

StartClamp == StartWith(ClampConfigs, {"s3cret"})

NextClamp ==
    \/ StartClamp
    \/ Exit
    \/ SchedList
    \/ SchedSetNext
    \/ SchedRunEnd
    \/ SchedSave

SpecClamp == Init /\ [][NextClamp]_vars

(***************************************************************************)
(* The process killed between the scheduler's set_probe_next_run and its   *)
(* save_probe_run, and started again with a configuration that still holds *)
(* the key.  last keeps the key and the tentative time written.            *)
(***************************************************************************)
CrashConfigs ==
    {WithProbes(<<DefA>>), WithProbes(<<DefB, DefA>>),
     WithProbes(<<[DefA EXCEPT !.interval_seconds = 70]>>)}

StartCrash == StartWith(CrashConfigs, {"s3cret"})

Crash ==
    /\ phase = "up"
    /\ sched.pc \in {"running", "save"}
    /\ phase' = "down"
    /\ sched' = SchedOff
    /\ workers' = [w \in Workers |-> WorkerIdle]
    /\ last' = [op |-> "crash", key |-> sched.due[sched.i].key,
                tentative_next |-> sched.tentative_next]
    /\ runs' = Committed(runs, uncommitted)
    /\ uncommitted' = 0
    /\ UNCHANGED <<config, admin_token, defs, audit, clock>>

Restart ==
    /\ phase = "down"
    /\ last.op = "crash"
    /\ \E c \in CrashConfigs :
        /\ \E n \in 1..Len(c.scheduled_probes) : strip(c.scheduled_probes[n].key) = last.key
        /\ Commit(sync_probe_definitions(DB, c.scheduled_probes, clock))
        /\ config' = c
    /\ phase' = "up"
    /\ sched' = [SchedOff EXCEPT !.pc = "top"]
    /\ last' = [op |-> "restarted", key |-> last.key, tentative_next |-> last.tentative_next]
    /\ UNCHANGED <<admin_token, clock, workers>>

NextCrash ==
    \/ StartCrash
    \/ Crash
    \/ Restart
    \/ Tick
    \/ SchedList
    \/ SchedSetNext
    \/ SchedRunEnd
    \/ SchedSave
    \/ SchedWake

SpecCrash == Init /\ [][NextCrash]_vars

(***************************************************************************)
(* The gateway with readers of the audit (GET /api/v1/audit clamps the     *)
(* limit to 1..MAX_AUDIT_LIMIT).                                           *)
(***************************************************************************)
AuditedRequests ==
    {[target_type |-> "service", action |-> "restart", target |-> "nginx", reason |-> "deploy"],
     [target_type |-> "container", action |-> " restart", target |-> "web", reason |-> "deploy"],
     [target_type |-> "service", action |-> "restart", target |-> "web", reason |-> "deploy"]}

ExecuteAudited ==
    ExecuteActionWith(AuditedRequests, {o \in CmdOutcomes : o.kind = "exit"})

ReadAudit ==
    /\ phase = "up"
    /\ \E limit \in 1..(MaxAudit + 1) :
        last' = [op |-> "read_audit", limit |-> limit, rows |-> read_action_audit(DB, limit)]
    /\ UNCHANGED <<phase, config, admin_token, defs, runs, audit, uncommitted, clock, sched, workers>>

NextAudit ==
    \/ StartGateway
    \/ Exit
    \/ Tick
    \/ ExecuteAudited
    \/ ReadAudit

SpecAudit == Init /\ [][NextAudit]_vars

(***************************************************************************)
(* Requests served while the store raises (sqlite3.Error) in the first     *)
(* store call the route makes.                                             *)
(***************************************************************************)
\* An exception leaves do_GET or do_POST: socketserver reports it on stderr
\* and closes the connection; no status line is written.
NoResponse == 0

\* The routes that call the store: collect_status (get_latest_probes),
\* read_audit, get_probe_history, execute_action once the command has run
\* (add_action_audit) and run_probe_once (get_probe_definition).
UsesStore(r) ==
    \/ r.handler \in {"status", "audit", "history", "probes_run"}
    \/ r.handler = "action" /\ r.status \notin {400, 403}

\* Only the status route is wrapped in try/except Exception and sends 500.
StoreRaises(db, r) ==
    IF r.handler = "status" THEN Answer(500, "status", db)
    ELSE Answer(NoResponse, r.handler, db)

Failed(req, r) ==
    /\ UsesStore(r)
    /\ last' = [op |-> "http_raise", req |-> req, status |-> StoreRaises(DB, r).status,
                handler |-> r.handler]

HttpRequestStoreRaises ==
    /\ phase = "up"
    /\ \E req \in HttpRequests, o \in HttpOutcomes :
        Failed(req, handle(DB, config, admin_token, req, clock, o.cmd, o.tcp))
    /\ UNCHANGED <<phase, config, admin_token, defs, runs, audit, uncommitted, clock, sched, workers>>

NextFail ==
    \/ StartHttp
    \/ Exit
    \/ HttpRequest
    \/ HttpRequestStoreRaises

SpecFail == Init /\ [][NextFail]_vars

(***************************************************************************)
(* The scheduler of one process that is not stopped.  The thread is        *)
(* scheduled, every run_probe returns and time passes: each of its steps   *)
(* is weakly fair.  The wait also ends once the clock has taken its last   *)
(* reading, so that the loop goes on beyond the times the model counts.    *)
(***************************************************************************)
LiveConfigs == {WithProbes(<<DefA>>), WithProbes(<<DefA, DefB>>), WithProbes(<<DefA, DefBOff>>),
                WithProbes(<<DefB>>)}

StartLive == StartWith(LiveConfigs, {"s3cret"})

SchedWakeLate ==
    /\ phase = "up" /\ sched.pc = "wait"
    /\ clock < sched.wake_at
    /\ clock + Seconds(TickStepSeconds) > Seconds(MaxClockSeconds)
    /\ sched' = [sched EXCEPT !.pc = "top", !.due = <<>>, !.i = 0, !.wake_at = NULL]
    /\ last' = [op |-> "step"]
    /\ UNCHANGED <<phase, config, admin_token, defs, runs, audit, uncommitted, clock, workers>>

NextLive ==
    \/ StartLive
    \/ Tick
    \/ SchedList
    \/ SchedSetNext
    \/ SchedRunEnd
    \/ SchedSave
    \/ SchedWake
    \/ SchedWakeLate

\* WF_vars(SchedList) written over states: SchedList is enabled exactly where
\* the scheduler of a running process is at the top of its loop, and it is the
\* one step of NextLive that leaves there.
SchedListFair == []<>(~(phase = "up" /\ sched.pc = "top"))

SpecLive ==
    /\ Init /\ [][NextLive]_vars
    /\ WF_vars(Tick)
    /\ SchedListFair
    /\ WF_vars(SchedSetNext)
    /\ WF_vars(SchedRunEnd)
    /\ WF_vars(SchedSave)
    /\ WF_vars(SchedWake)
    /\ WF_vars(SchedWakeLate)

(***************************************************************************)
(* The scheduler with a store whose call raises (sqlite3.Error).  run()    *)
(* has no try: the exception leaves it and the thread ends, while the      *)
(* process and its HTTP server go on.                                      *)
(***************************************************************************)
SchedStoreRaises ==
    /\ phase = "up"
    /\ ~sched.stop
    /\ sched.pc \in {"top", "set_next", "save"}
    /\ sched' = [sched EXCEPT !.pc = "ended"]
    /\ last' = [op |-> "store_raised",
                call |-> CASE sched.pc = "top" -> "list_due_probes"
                           [] sched.pc = "set_next" -> "set_probe_next_run"
                           [] OTHER -> "save_probe_run"]
    /\ UNCHANGED <<phase, config, admin_token, defs, runs, audit, uncommitted, clock, workers>>

NextSchedFail ==
    \/ StartLive
    \/ Exit
    \/ Tick
    \/ SchedList
    \/ SchedSetNext
    \/ SchedRunEnd
    \/ SchedSave
    \/ SchedWake
    \/ SchedStoreRaises

SpecSchedFail == Init /\ [][NextSchedFail]_vars

(***************************************************************************)
(* Every writer of the store: the startup sync, the scheduler, on-demand   *)
(* runs and audited actions.                                               *)
(***************************************************************************)
RowsConfigs ==
    {[scheduled_probes |-> <<DefA>>, targets |-> Allowlist],
     [scheduled_probes |-> <<DefB>>, targets |-> Allowlist]}

StartRows == StartWith(RowsConfigs, {"s3cret"})

ExecuteRows ==
    ExecuteActionWith({r \in AuditedRequests : r.target_type = "service"},
                      {o \in CmdOutcomes : o.kind = "exit"})

NextRows ==
    \/ StartRows
    \/ Exit
    \/ SchedList
    \/ SchedSetNext
    \/ SchedRunEnd
    \/ SchedSave
    \/ \E w \in Workers : RunOnceBegin(w, "a")
    \/ \E w \in Workers : RunOnceEnd(w)
    \/ \E w \in Workers : RunOnceSave(w)
    \/ ExecuteRows

SpecRows == Init /\ [][NextRows]_vars

(***************************************************************************)
(* save_probe_run that raises after its INSERT, on the connection every    *)
(* store method shares.  No method rolls back: the INSERT stays in the     *)
(* connection's open transaction, which reads on the connection see and    *)
(* the next commit() of any method commits, unless SQLite itself rolled    *)
(* the transaction back for the error (it does for some errors).           *)
(***************************************************************************)
\* The INSERT INTO probe_runs of save_probe_run.
insert_probe_run(db, key, run) ==
    [db EXCEPT
        !.runs = Append(db.runs, [probe_key |-> key,
                                  started_at |-> run.started_at,
                                  ended_at |-> run.ended_at,
                                  ok |-> IF run.ok THEN 1 ELSE 0,
                                  status |-> run.status,
                                  latency_ms |-> run.latency_ms,
                                  error |-> run.error])]

\* run_probe_once whose save_probe_run raises at its UPDATE: the exception
\* leaves do_POST and the worker ends without a response.
RunOnceSaveRaises(w) ==
    /\ phase = "up" /\ workers[w].pc = "save"
    /\ \E rolled_back \in BOOLEAN :
        IF rolled_back
        THEN /\ runs' = Committed(runs, uncommitted)
             /\ uncommitted' = 0
        ELSE /\ runs' = insert_probe_run(DB, workers[w].probe.key, workers[w].run).runs
             /\ uncommitted' = uncommitted + 1
    /\ workers' = [workers EXCEPT ![w] = WorkerIdle]
    /\ last' = [op |-> "run_once", key |-> workers[w].probe.key, status |-> NoResponse]
    /\ UNCHANGED <<phase, config, admin_token, defs, audit, clock, sched>>

\* GET /api/v1/probes/history?key=...
ReadHistory ==
    /\ phase = "up"
    /\ \E key \in Keys :
        last' = [op |-> "history", key |-> key,
                 rows |-> get_probe_history(DB, key, MaxRuns + 1)]
    /\ UNCHANGED <<phase, config, admin_token, defs, runs, audit, uncommitted, clock, sched, workers>>

TxnConfigs == {WithProbes(<<DefA>>)}

StartTxn == StartWith(TxnConfigs, {"s3cret"})

NextTxn ==
    \/ StartTxn
    \/ Exit
    \/ SchedList
    \/ SchedSetNext
    \/ SchedRunEnd
    \/ SchedSave
    \/ \E w \in Workers : RunOnceBegin(w, "a")
    \/ \E w \in Workers : RunOnceEnd(w)
    \/ \E w \in Workers : RunOnceSave(w)
    \/ \E w \in Workers : RunOnceSaveRaises(w)
    \/ ReadHistory

SpecTxn == Init /\ [][NextTxn]_vars

(***************************************************************************)
(* ProbeRunner.run_probe for every probe type, with the payload.  A piece  *)
(* of text built at run time (an f-string, a join, str(ex)) is a sequence  *)
(* of its pieces; <<>> is the empty text.                                  *)
(***************************************************************************)
KeyPort == <<"p", "o", "r", "t">>
KeyUrl == <<"u", "r", "l">>
KeyAllow4xx == <<"a", "l", "l", "o", "w", "_", "4", "x", "x">>
KeyExpectedStatus == <<"e", "x", "p", "e", "c", "t", "e", "d", "_", "s", "t", "a", "t", "u", "s">>
KeyPgDsn == <<"p", "g", "_", "d", "s", "n">>
KeyMaxOutbox == <<"m", "a", "x", "_", "o", "u", "t", "b", "o", "x">>

\* bool(x) of a JSON value.
truthy(x) ==
    CASE x.t = "null" -> FALSE
      [] x.t = "bool" -> x.v
      [] x.t = "int" -> x.v # 0
      [] OTHER -> x.v # <<>>

\* str(x).strip() of a JSON value: a string without the blanks around it; the
\* text of any other value has no blank around it and is not empty.
RECURSIVE StripLeft(_)
StripLeft(cs) == IF cs # <<>> /\ Head(cs) = " " THEN StripLeft(Tail(cs)) ELSE cs

RECURSIVE StripRight(_)
StripRight(cs) ==
    IF cs # <<>> /\ cs[Len(cs)] = " " THEN StripRight(SubSeq(cs, 1, Len(cs) - 1)) ELSE cs

str_strip(x) == IF x.t = "str" THEN StripRight(StripLeft(x.v)) ELSE json_dumps(x)

\* What a type-specific method does: it returns a result or raises.
Raise(message) == [raised |-> TRUE, error |-> message]
Return(ok, status, error, payload) ==
    [raised |-> FALSE, ok |-> ok, status |-> status, error |-> error, payload |-> payload]

\* A result whose status is taken from the error text and not from ok.
CheckedByError(check) ==
    Return(check.ok, IF check.error = <<>> THEN "healthy" ELSE "degraded", check.error, check)

\* tcp_check(host, port, timeout): the connection is made or create_connection raises.
tcp_check(port, outcome) ==
    [port |-> port,
     ok |-> outcome = "connected",
     error |-> IF outcome = "connected" THEN <<>> ELSE <<"Connection refused">>]

Checked(check) ==
    Return(check.ok, IF check.ok THEN "healthy" ELSE "degraded", check.error, check)

\* _probe_tcp with its payload; int(port) raises on a value that is no number.
probe_tcp_full(cfg, outcome) ==
    LET port == JGet(cfg, KeyPort, JInt(0))
    IN IF IntRaises(port) THEN Raise(<<"invalid literal for int()">>)
       ELSE IF port.v <= 0
       THEN Return(FALSE, "error", <<"tcp_check requires positive port">>, [port |-> port.v])
       ELSE Checked(tcp_check(port.v, outcome))

\* What urlopen does: a response or an HTTPError carries a status code; any
\* other exception carries the message str(ex) gives.
HttpStatuses == {200, 204, 399, 400, 404, 499, 500, 503}
Messages == {<<"timed out">>, <<>>}

HttpAnswers ==
    [kind : {"response"}, status : HttpStatuses, message : {<<>>}]
    \cup [kind : {"raises"}, status : {0}, message : Messages]

Elements(xs) == {xs[n] : n \in 1..Len(xs)}

\* A decision that takes no 4xx status when allow_4xx is set.
HttpOkBelow400(status, error_message, expected_status, allow_4xx) ==
    IF error_message # <<>> THEN FALSE
    ELSE IF expected_status # <<>> THEN status \in Elements(expected_status)
    ELSE IF allow_4xx THEN status < 400
    ELSE 200 <= status /\ status < 400

\* The decision of http_probe once the request is over.
HttpOk(status, error_message, expected_status, allow_4xx) ==
    IF error_message # <<>> THEN FALSE
    ELSE IF expected_status # <<>> THEN status \in Elements(expected_status)
    ELSE IF allow_4xx THEN status < 500
    ELSE 200 <= status /\ status < 400

\* http_probe(url, timeout_seconds, method, expected_status, allow_4xx);
\* expected_status <<>> is None.
http_probe(expected_status, allow_4xx, answer) ==
    [status_code |-> IF answer.kind = "raises" THEN 0 ELSE answer.status,
     ok |-> HttpOk(IF answer.kind = "raises" THEN 0 ELSE answer.status,
                   IF answer.kind = "raises" THEN answer.message ELSE <<>>,
                   expected_status, allow_4xx),
     error |-> IF answer.kind = "raises" THEN answer.message ELSE <<>>]

\* The entries of expected_status that int() takes, when it is a list.
RECURSIVE IntsOf(_)
IntsOf(xs) ==
    IF xs = <<>> THEN <<>>
    ELSE IF IntRaises(Head(xs)) THEN IntsOf(Tail(xs))
    ELSE <<Head(xs).v>> \o IntsOf(Tail(xs))

ExpectedStatus(raw) == IF raw.t = "arr" THEN IntsOf(raw.v) ELSE <<>>

\* _probe_http
probe_http(cfg, answer) ==
    IF str_strip(JGet(cfg, KeyUrl, JStr(<<>>))) = <<>>
    THEN Return(FALSE, "error", <<"http_check requires url">>, <<>>)
    ELSE Checked(http_probe(ExpectedStatus(JGet(cfg, KeyExpectedStatus, JArr(<<>>))),
                            truthy(JGet(cfg, KeyAllow4xx, JBool(TRUE))), answer))

\* What psql does for one query: run_cmd fails, or prints a first line that
\* is empty, an integer or some other text.
PsqlAnswers ==
    {[ok |-> FALSE, line |-> "empty", value |-> 0],
     [ok |-> TRUE, line |-> "empty", value |-> 0],
     [ok |-> TRUE, line |-> "text", value |-> 0],
     [ok |-> TRUE, line |-> "int", value |-> 7],
     [ok |-> TRUE, line |-> "int", value |-> 201]}

\* _psql_scalar: (ok, value, error); NULL is None.
psql_scalar(answer) ==
    IF ~answer.ok THEN [ok |-> FALSE, value |-> NULL, error |-> <<"psql failed">>]
    ELSE IF answer.line = "empty" THEN [ok |-> FALSE, value |-> NULL, error |-> <<"No scalar result">>]
    ELSE IF answer.line = "int" THEN [ok |-> TRUE, value |-> answer.value, error |-> <<>>]
    ELSE [ok |-> FALSE, value |-> NULL, error |-> <<"Non-integer scalar result: ", "x">>]

\* _step_ok
step_ok(step) == IF step.skipped THEN TRUE ELSE step.ok

Step(name, required, ok, skipped, error) ==
    [name |-> name, required |-> required, ok |-> ok, skipped |-> skipped, error |-> error]

\* "; ".join(names)
RECURSIVE Join(_)
Join(names) ==
    IF names = <<>> THEN <<>>
    ELSE IF Len(names) = 1 THEN names
    ELSE <<Head(names), "; ">> \o Join(Tail(names))

RECURSIVE NamesOf(_)
NamesOf(steps) == IF steps = <<>> THEN <<>> ELSE <<Head(steps).name>> \o NamesOf(Tail(steps))

\* An aggregate whose error names the first failing step only.
AggregateFirstFailure(probe, steps) ==
    Return(SelectSeq(steps, LAMBDA st : ~step_ok(st)) = <<>>,
           IF SelectSeq(steps, LAMBDA st : ~step_ok(st)) = <<>> THEN "healthy" ELSE "degraded",
           IF SelectSeq(steps, LAMBDA st : ~step_ok(st)) = <<>> THEN <<>>
           ELSE <<Head(SelectSeq(steps, LAMBDA st : ~step_ok(st))).name>>,
           [probe |-> probe, steps |-> steps])

\* failed = [s for s in steps if not self._step_ok(s)]; ok = len(failed) == 0
Aggregate(probe, steps) ==
    Return(SelectSeq(steps, LAMBDA st : ~step_ok(st)) = <<>>,
           IF SelectSeq(steps, LAMBDA st : ~step_ok(st)) = <<>> THEN "healthy" ELSE "degraded",
           Join(NamesOf(SelectSeq(steps, LAMBDA st : ~step_ok(st)))),
           [probe |-> probe, steps |-> steps])

TcpStep(name, check) == Step(name, TRUE, check.ok, FALSE, check.error)
HttpStep(name, check) == Step(name, TRUE, check.ok, FALSE, check.error)

\* A database step: the scalar is there and within the limit.
DbStep(name, scalar, limit) ==
    Step(name, TRUE, scalar.ok /\ scalar.value # NULL /\ scalar.value <= limit, FALSE, scalar.error)

DbSteps(dsn, max_outbox, env) ==
    IF dsn # <<>>
    THEN <<DbStep("db_outbox_backlog", psql_scalar(env.psql[1]), max_outbox.v),
           DbStep("db_failed_recent", psql_scalar(env.psql[2]), 20)>>
    ELSE <<Step("db_checks", FALSE, TRUE, TRUE, <<"pg_dsn not provided">>)>>

\* cfg["pg_dsn"] stripped, or else the environment variable stripped.
DsnOf(cfg, env) ==
    IF str_strip(JGet(cfg, KeyPgDsn, JStr(<<>>))) # <<>>
    THEN str_strip(JGet(cfg, KeyPgDsn, JStr(<<>>)))
    ELSE env.dsn_env

\* _probe_sms_health; int(cfg.get("max_outbox", 200)) is read once a DSN is there.
probe_sms_health(cfg, env) ==
    IF DsnOf(cfg, env) # <<>> /\ IntRaises(JGet(cfg, KeyMaxOutbox, JInt(200)))
    THEN Raise(<<"invalid literal for int()">>)
    ELSE Aggregate("sms_health",
             <<TcpStep("provider_tcp", tcp_check(443, env.tcp)),
               HttpStep("provider_http", http_probe(<<>>, TRUE, env.http[1]))>>
             \o DbSteps(DsnOf(cfg, env), JGet(cfg, KeyMaxOutbox, JInt(200)), env))

\* _probe_nid_health
probe_nid_health(cfg, env) ==
    Aggregate("nid_health",
        <<TcpStep("gateway_tcp", tcp_check(80, env.tcp)),
          HttpStep("gateway_http_base", http_probe(<<>>, TRUE, env.http[1])),
          HttpStep("gateway_http_requestData_endpoint", http_probe(<<>>, TRUE, env.http[2])),
          HttpStep("gateway_http_getData_endpoint", http_probe(<<>>, TRUE, env.http[3]))>>)

\* The try block of run_probe.
type_logic(probe_type, cfg, env) ==
    IF probe_type = "sms_health" THEN probe_sms_health(cfg, env)
    ELSE IF probe_type = "nid_health" THEN probe_nid_health(cfg, env)
    ELSE IF probe_type = "tcp_check" THEN probe_tcp_full(cfg, env.tcp)
    ELSE IF probe_type = "http_check" THEN probe_http(cfg, env.http[1])
    ELSE Return(FALSE, "error", <<"Unsupported probe type: ", probe_type>>,
                [probe_type |-> probe_type])

\* An except branch that does not echo the requested type.
CaughtWithoutType(probe_type, r) ==
    IF r.raised
    THEN [ok |-> FALSE, status |-> "error", error |-> r.error, payload |-> [probe_type |-> ""]]
    ELSE [ok |-> r.ok, status |-> r.status, error |-> r.error, payload |-> r.payload]

\* except Exception as ex: the error result with the requested type.
Caught(probe_type, r) ==
    IF r.raised
    THEN [ok |-> FALSE, status |-> "error", error |-> r.error, payload |-> [probe_type |-> probe_type]]
    ELSE [ok |-> r.ok, status |-> r.status, error |-> r.error, payload |-> r.payload]

Envelope(started, ended, result) ==
    [started_at |-> started,
     ended_at |-> ended,
     latency_ms |-> (ended - started) * (1000 \div TicksPerSecond),
     ok |-> result.ok,
     status |-> result.status,
     error |-> result.error,
     payload |-> result.payload]

\* run_probe with the payload: started and ended are the two clock readings.
run_probe_full(probe, started, ended, env) ==
    Envelope(started, ended,
             Caught(probe.type, type_logic(probe.type, probe.config, env)))

(***************************************************************************)
(* run_probe on the definitions and answers below, between two readings   *)
(* of the clock.                                                           *)
(***************************************************************************)
Obj1(k, v) == JObj(<< <<k, v>> >>)
Obj2(k1, v1, k2, v2) == JObj(<< <<k1, v1>>, <<k2, v2>> >>)

UrlValue == JStr(<<"h", "t", "t", "p", ":", "/", "/", "h">>)
DsnValue == JStr(<<" ", "d", "b">>)

TcpConfigs == {EmptyObj, PortCfg, Obj1(KeyPort, JStr(<<"x">>))}

HttpCheckConfigs ==
    {EmptyObj,
     Obj1(KeyUrl, JStr(<<" ">>)),
     Obj1(KeyUrl, UrlValue),
     Obj2(KeyUrl, UrlValue, KeyAllow4xx, JBool(FALSE)),
     Obj2(KeyUrl, UrlValue, KeyExpectedStatus, JArr(<<>>)),
     Obj2(KeyUrl, UrlValue, KeyExpectedStatus, JArr(<<JInt(404)>>)),
     Obj2(KeyUrl, UrlValue, KeyExpectedStatus, JArr(<<JInt(200), JInt(204)>>))}

SmsConfigs ==
    {EmptyObj,
     Obj1(KeyPgDsn, DsnValue),
     Obj2(KeyPgDsn, DsnValue, KeyMaxOutbox, JInt(5)),
     Obj1(KeyMaxOutbox, JStr(<<"x">>))}

Response(status) == [kind |-> "response", status |-> status, message |-> <<>>]

StepAnswers ==
    {Response(200), Response(503),
     [kind |-> "raises", status |-> 0, message |-> <<"timed out">>],
     [kind |-> "raises", status |-> 0, message |-> <<>>]}

QuietEnv ==
    [tcp |-> "connected",
     http |-> <<Response(200), Response(200), Response(200)>>,
     psql |-> <<[ok |-> TRUE, line |-> "int", value |-> 7], [ok |-> TRUE, line |-> "int", value |-> 7]>>,
     dsn_env |-> <<>>]

ProbeOf(type, cfg) ==
    [key |-> "a", type |-> type, interval_seconds |-> 5, timeout_seconds |-> 5, config |-> cfg]

\* A definition and what the network, psql and the environment answer to it.
RunnerCases ==
    {[probe |-> ProbeOf("tcp_check", c), env |-> [QuietEnv EXCEPT !.tcp = t]] :
        c \in TcpConfigs, t \in TcpOutcomes}
    \cup {[probe |-> ProbeOf("http_check", c), env |-> [QuietEnv EXCEPT !.http[1] = h]] :
        c \in HttpCheckConfigs, h \in HttpAnswers}
    \cup {[probe |-> ProbeOf("sms_health", c),
           env |-> [tcp |-> t, http |-> <<h, h, h>>, psql |-> <<q1, q2>>, dsn_env |-> d]] :
        c \in SmsConfigs, t \in TcpOutcomes, h \in StepAnswers,
        q1 \in PsqlAnswers, q2 \in PsqlAnswers, d \in {<<>>, <<"d", "b">>}}
    \cup {[probe |-> ProbeOf("nid_health", EmptyObj),
           env |-> [QuietEnv EXCEPT !.tcp = t, !.http = <<h1, h2, h3>>]] :
        t \in TcpOutcomes, h1 \in StepAnswers, h2 \in StepAnswers, h3 \in StepAnswers}
    \cup {[probe |-> ProbeOf(ty, c), env |-> QuietEnv] :
        ty \in {"ping", ""}, c \in {EmptyObj, PortCfg}}

\* started = dt.datetime.now(dt.timezone.utc)
RunnerBegin ==
    /\ last.op = "none"
    /\ \E case \in RunnerCases :
        last' = [op |-> "running", probe |-> case.probe, env |-> case.env, started |-> clock]
    /\ UNCHANGED <<phase, config, admin_token, defs, runs, audit, uncommitted, clock, sched, workers>>

\* The type-specific logic is over; ended = dt.datetime.now(dt.timezone.utc).
RunnerEnd ==
    /\ last.op = "running"
    /\ last' = [op |-> "run_probe", probe |-> last.probe, env |-> last.env,
                run |-> run_probe_full(last.probe, last.started, clock, last.env)]
    /\ UNCHANGED <<phase, config, admin_token, defs, runs, audit, uncommitted, clock, sched, workers>>

\* The caller has taken the envelope.
RunnerReturn ==
    /\ last.op = "run_probe"
    /\ last' = [op |-> "none"]
    /\ UNCHANGED <<phase, config, admin_token, defs, runs, audit, uncommitted, clock, sched, workers>>

NextRunner ==
    \/ Tick
    \/ RunnerBegin
    \/ RunnerEnd
    \/ RunnerReturn

SpecRunner == Init /\ [][NextRunner]_vars

(***************************************************************************)
(* Properties.                                                             *)
(***************************************************************************)
TargetsOf(cfg, target_type) ==
    IF target_type = "service" THEN configured_services(cfg) ELSE configured_containers(cfg)

\* The request as execute_action reads it: every field stripped.
Listed(cfg, req) ==
    /\ strip(req.action) \in allowed_actions(cfg, strip(req.target_type))
    /\ strip(req.target) \in TargetsOf(cfg, strip(req.target_type))

\* C1 Allowlist soundness: a call of execute_action whose action is not in the
\* actions allowed for its target_type, or whose target is not in the
\* configured list of that target_type, spawns no subprocess and writes no
\* audit row; a command that is spawned carries a listed action and target.
AllowlistSoundness ==
    last.op = "action" =>
        /\ ~Listed(config, last.req) =>
              /\ last.command = <<>>
              /\ Len(audit) = last.audit_before
              /\ last.status \in {400, 403}
        /\ last.command # <<>> =>
              /\ last.command[4] \in allowed_actions(config, strip(last.req.target_type))
              /\ last.command[5] \in TargetsOf(config, strip(last.req.target_type))

\* An off-list target is refused while the audit log already holds a row.
AllowlistSoundnessWitness ==
    /\ last.op = "action"
    /\ last.status = 403
    /\ last.response.error = <<"Service '", "web", "' is not in allowlist.">>
    /\ last.command = <<>>
    /\ audit # <<>>

\* C2 Audit completeness: a call of execute_action that reaches run_cmd appends
\* exactly one audit row, and the row's ok, return_code and stderr are those of
\* the command result, whatever the command did.
AuditCompleteness ==
    (last.op = "action" /\ last.command # <<>>) =>
        LET result == run_cmd(last.command, 45, last.outcome)
            row == audit[Len(audit)]
        IN /\ Len(audit) = last.audit_before + 1
           /\ (row.ok # 0) = result.ok
           /\ row.return_code = result.return_code
           /\ row.stderr = result.stderr
           /\ row.action = last.command[4]
           /\ row.target = last.command[5]

\* A command that overran its timeout is audited as a failure.
AuditCompletenessWitness ==
    /\ last.op = "action"
    /\ last.command # <<>>
    /\ last.outcome.kind = "timeout"
    /\ Len(audit) = last.audit_before + 1
    /\ audit[Len(audit)].ok = 0
    /\ audit[Len(audit)].return_code = -1

\* C3 No concurrent self-execution: the scheduler and an on-demand run are
\* never both executing the same probe key.
NoConcurrentSelfExecution ==
    \A w \in Workers :
        ~(/\ sched.pc = "running"
          /\ workers[w].pc = "running"
          /\ workers[w].probe.key = sched.due[sched.i].key)

\* C4 Scheduler monotonicity: the runs of a key, in row id order, have
\* non-decreasing started_at.
RunsOrderedByStart ==
    \A i, j \in 1..Len(runs) :
        (i < j /\ runs[i].probe_key = runs[j].probe_key) =>
            runs[i].started_at <= runs[j].started_at

\* C5 Staleness law: get_latest_probes(now) reports is_stale exactly when the
\* definition has no run or now minus the latest run's ended_at is strictly
\* more than stale_after_seconds, fractions of a second included.
StalenessLaw ==
    last.op = "latest" =>
        \A k \in DOMAIN last.out :
            last.out[k].is_stale <=>
                \/ RunIds(runs, k) = {}
                \/ last.now - runs[LatestRunId(runs, k)].ended_at
                       > Seconds(defs[k].stale_after_seconds)

\* The keys of a configuration's scheduled_probes.
ConfigKeys(cfg) ==
    {strip(cfg.scheduled_probes[n].key) : n \in 1..Len(cfg.scheduled_probes)}

\* C6 Soft-delete by sync: after sync_probe_definitions returns, every stored
\* definition whose key is not in the list it was given is disabled, the empty
\* list included.
SoftDeleteBySync ==
    last.op = "sync" =>
        \A k \in DOMAIN defs : k \notin ConfigKeys(config) => defs[k].enabled = 0

\* C7 Sync preserves history: sync_probe_definitions changes no row of
\* probe_runs or action_audit and removes no definition, so get_probe_history
\* answers the same for every key before and after.
SyncPreservesHistory ==
    [][(phase = "down" /\ phase' = "up") =>
          /\ runs' = runs
          /\ audit' = audit
          /\ DOMAIN defs \subseteq DOMAIN defs'
          /\ \A k \in Keys, limit \in 1..(MaxRuns + 1) :
                get_probe_history([defs |-> defs', runs |-> runs', audit |-> audit'], k, limit)
                    = get_probe_history(DB, k, limit)]_vars

\* A sync over a database with runs and audit rows, whose configuration omits
\* a key that has runs.
SyncPreservesHistoryWitness ==
    /\ last.op = "sync"
    /\ audit # <<>>
    /\ \E k \in DOMAIN defs :
          /\ k \notin ConfigKeys(config)
          /\ defs[k].enabled = 0
          /\ get_probe_history(DB, k, MaxRuns) # <<>>

\* C8 The scheduler never schedules a disabled probe: list_due_probes returns
\* no disabled definition at any time, and the key the scheduler is about to
\* execute or is executing is enabled in the store.
NeverSchedulesDisabled ==
    /\ \A now \in {0, clock, Seconds(MaxClockSeconds + TickStepSeconds)} :
          \A n \in DOMAIN list_due_probes(DB, now) :
              /\ list_due_probes(DB, now)[n].enabled
              /\ defs[list_due_probes(DB, now)[n].key].enabled = 1
    /\ sched.pc \in {"set_next", "running"} => defs[sched.due[sched.i].key].enabled = 1

\* The scheduler executes a probe while another definition, due by its
\* next_run_at, is disabled.
NeverSchedulesDisabledWitness ==
    /\ sched.pc = "running"
    /\ \E k \in DOMAIN defs : IsDueWhateverEnabled(defs[k], clock) /\ defs[k].enabled = 0

\* C9 Fail-closed auth: with no admin token, every request to a path other
\* than /api/v1/health is answered 401 and reaches no handler, and
\* GET /api/v1/health is answered 200.
FailClosedAuth ==
    (last.op = "http" /\ admin_token = "") =>
        IF PathIs(last.req.path, HealthPath)
        THEN last.req.method = "GET" => last.status = 200
        ELSE last.status = 401 /\ last.handler = "none"

\* The last definition of scheduled_probes with this key.
LastWithKey(cfg, k) ==
    cfg.scheduled_probes[SetMax({n \in 1..Len(cfg.scheduled_probes) :
                                    strip(cfg.scheduled_probes[n].key) = k})]

\* C10 Round-trip config: a definition whose config is a JSON mapping reads
\* back from get_probe_definition, after sync_probe_definitions stored it,
\* with a config equal to the mapping given.
RoundTripConfig ==
    last.op \in {"sync", "get_def"} =>
        \A k \in ConfigKeys(config) :
            isinstance_dict(LastWithKey(config, k).config) =>
                get_probe_definition(DB, k).config = LastWithKey(config, k).config

\* A mapping with a quote, a backslash and a non-ASCII character in a string
\* is read back.
RoundTripConfigWitness ==
    /\ last.op = "get_def"
    /\ last.probe # NoProbe
    /\ last.probe.config = HostCfg
    /\ LastWithKey(config, last.key).config = HostCfg

\* C11 Gateway validation order: the answer of execute_action is that of the
\* first check that fails, in the order target_type (400), target non-empty
\* (400), action allowed (403), target listed (403).
ValidationOrder ==
    last.op = "action" =>
        LET target_type == strip(last.req.target_type)
            action == strip(last.req.action)
            target == strip(last.req.target)
            answer == <<last.status, last.response.ok,
                        IF last.command = <<>> THEN last.response.error ELSE <<>> >>
        IN IF target_type \notin {"service", "container"}
           THEN answer = <<400, FALSE, <<"Invalid target_type. Use service|container.">> >>
           ELSE IF target = ""
           THEN answer = <<400, FALSE, <<"Target is required.">> >>
           ELSE IF action \notin allowed_actions(config, target_type)
           THEN answer = <<403, FALSE,
                           <<"Action '", action, "' is not allowed for ", target_type, ".">> >>
           ELSE IF target \notin TargetsOf(config, target_type)
           THEN /\ last.status = 403
                /\ last.response.error[2] = target
                /\ last.response.error[3] = "' is not in allowlist."
           ELSE last.command # <<>> /\ last.status \in {200, 500}

\* A disallowed action on a target that is not listed either is answered with
\* the action error.
ValidationOrderWitness ==
    /\ last.op = "action"
    /\ strip(last.req.target_type) = "service"
    /\ strip(last.req.action) = "reload"
    /\ strip(last.req.target) \notin configured_services(config)
    /\ last.status = 403
    /\ last.response.error = <<"Action '", "reload", "' is not allowed for ", "service", ".">>

\* C12 Gateway result status: a request that passes validation is answered 200
\* exactly when the command exited with code 0, and 500 when it exited
\* non-zero, timed out or could not be spawned; the response carries the
\* command's return_code, stdout and stderr and the request's target_type,
\* target, action and reason.
ResultStatus ==
    (last.op = "action" /\ last.command # <<>>) =>
        LET o == last.outcome
            exited == o.kind = "exit"
        IN /\ last.status = (IF exited /\ o.returncode = 0 THEN 200 ELSE 500)
           /\ last.response.ok = (last.status = 200)
           /\ last.response.return_code = (IF exited THEN o.returncode ELSE -1)
           /\ last.response.stdout = (IF exited THEN strip(o.stdout) ELSE "")
           /\ last.response.stderr =
                 (IF exited THEN strip(o.stderr)
                  ELSE IF o.kind = "timeout" THEN "Command timed out after 45s"
                  ELSE o.stderr)
           /\ last.response.target_type = strip(last.req.target_type)
           /\ last.response.target = strip(last.req.target)
           /\ last.response.action = strip(last.req.action)
           /\ last.response.reason = strip(last.req.reason)

\* A command that exits with code 5 is answered 500 with its stderr.
ResultStatusWitness ==
    /\ last.op = "action"
    /\ last.command # <<>>
    /\ last.outcome.kind = "exit"
    /\ last.outcome.returncode = 5
    /\ last.status = 500
    /\ last.response.return_code = 5
    /\ last.response.stderr = "Unit not found."

\* The request the control plane validates for a helper operation.
GatewayRequest(req) ==
    [target_type |-> IF strip(req.op) = "service_action" THEN "service" ELSE "container",
     action |-> req.action, target |-> req.target, reason |-> ""]

\* C13 Helper validation is identical to the gateway's: with the same
\* configuration document, the helper runs the command of a service_action or
\* container_action exactly when execute_action would run its command for the
\* same target_type, action and target.
HelperMatchesGateway ==
    (last.op = "helper" /\ strip(last.req.op) \in {"service_action", "container_action"}) =>
        (last.command # <<>> <=> validate_action(config, GatewayRequest(last.req)).status = 0)

\* C14 Helper allowlist soundness: the helper runs systemctl or docker for a
\* service_action or container_action only when the action is among its
\* configuration's actions of that type and the target among its services or
\* containers; a request with an unknown op, an empty target or an off-list
\* action or target is answered ok false, return_code -1, and spawns nothing.
HelperAllowlistSoundness ==
    (last.op = "helper" /\ strip(last.req.op) # "container_status_map") =>
        LET op == strip(last.req.op)
            target_type == IF op = "service_action" THEN "service" ELSE "container"
            listed == /\ op \in {"service_action", "container_action"}
                      /\ strip(last.req.target) # ""
                      /\ strip(last.req.action) \in helper_allowed_actions(config, target_type)
                      /\ strip(last.req.target) \in
                            (IF op = "service_action" THEN helper_configured_services(config)
                             ELSE helper_configured_containers(config))
        IN IF listed
           THEN last.command = <<IF op = "service_action" THEN "systemctl" ELSE "docker",
                                  strip(last.req.action), strip(last.req.target)>>
           ELSE /\ last.command = <<>>
                /\ ~last.result.ok
                /\ last.result.return_code = -1

\* An off-list target is refused by the helper.
HelperAllowlistSoundnessWitness ==
    /\ last.op = "helper"
    /\ strip(last.req.op) = "service_action"
    /\ last.command = <<>>
    /\ last.result.stderr = <<"Service '", "web", "' is not in allowlist.">>
    /\ last.result.return_code = -1

\* C15 save_probe_run publishes atomically: in every state a store read can
\* observe, a definition's last_run_at is null with no run row of its key, or
\* is the ended_at of the highest-id run row of its key; get_latest_probes
\* reports the two together.
PublishedAtomically ==
    \A k \in DOMAIN defs :
        /\ IF RunIds(runs, k) = {}
           THEN defs[k].last_run_at = NULL
           ELSE defs[k].last_run_at = runs[LatestRunId(runs, k)].ended_at
        /\ get_latest_probes(DB, clock)[k].last_run_at = get_latest_probes(DB, clock)[k].ended_at

\* Two runs of one key with different end times have been saved, the later
\* by an on-demand run.
PublishedAtomicallyWitness ==
    /\ Len(runs) >= 2
    /\ runs[1].probe_key = runs[2].probe_key
    /\ runs[1].ended_at # runs[2].ended_at
    /\ defs[runs[2].probe_key].last_run_at = runs[2].ended_at
    /\ last.op = "run_once"

\* The columns sync_probe_definitions writes from a definition.
ConfigColumns(row) ==
    <<row.probe_type, row.interval_seconds, row.timeout_seconds, row.stale_after_seconds,
      row.enabled, row.probe_config_json>>

\* C16 Sync upsert and next_run_at: sync_probe_definitions stores a new key
\* with next_run_at at the time of the sync and last_run_at null, so that it
\* is due from then on when enabled; for a key already stored it writes type,
\* interval, timeout, stale_after, enabled and config and leaves next_run_at
\* and last_run_at as they were.
SyncUpsert ==
    [][(phase = "down" /\ phase' = "up") =>
          \A k \in ConfigKeys(config') :
              LET n == normalize_probe_definition(LastWithKey(config', k))
                  after == [defs |-> defs', runs |-> runs', audit |-> audit']
              IN /\ k \in DOMAIN defs'
                 /\ ConfigColumns(defs'[k]) = ConfigColumns(n)
                 /\ IF k \in DOMAIN defs
                    THEN /\ defs'[k].next_run_at = defs[k].next_run_at
                         /\ defs'[k].last_run_at = defs[k].last_run_at
                    ELSE /\ defs'[k].next_run_at = clock
                         /\ defs'[k].last_run_at = NULL
                         /\ n.enabled = 1 =>
                               \A now \in {clock, clock + 1, Seconds(MaxClockSeconds)} :
                                   \E i \in DOMAIN list_due_probes(after, now) :
                                       list_due_probes(after, now)[i].key = k]_vars

\* A sync has updated a definition that has a run: its interval is the new
\* one and its last_run_at and next_run_at are those of the run.
SyncUpsertWitness ==
    /\ last.op = "sync"
    /\ "b" \in ConfigKeys(config)
    /\ "b" \in DOMAIN defs
    /\ defs["b"].interval_seconds = 7
    /\ defs["b"].last_run_at # NULL
    /\ defs["b"].next_run_at = defs["b"].last_run_at + Seconds(5)

\* C17 list_due_probes(now) returns exactly the definitions that are enabled
\* and whose next_run_at is null or not after now, each once, ordered by
\* next_run_at with null first and, among equal next_run_at, by key.
ListDueExact ==
    last.op = "due" =>
        LET ks == last.keys
        IN /\ {ks[n] : n \in 1..Len(ks)} =
                 {k \in DOMAIN defs :
                     /\ defs[k].enabled = 1
                     /\ (defs[k].next_run_at = NULL \/ defs[k].next_run_at <= last.now)}
           /\ \A i, j \in 1..Len(ks) : i < j =>
                 /\ ks[i] # ks[j]
                 /\ defs[ks[j]].next_run_at = NULL => defs[ks[i]].next_run_at = NULL
                 /\ (defs[ks[i]].next_run_at # NULL /\ defs[ks[j]].next_run_at # NULL) =>
                        defs[ks[i]].next_run_at <= defs[ks[j]].next_run_at
                 /\ defs[ks[i]].next_run_at = defs[ks[j]].next_run_at =>
                        KeyRank(ks[i]) < KeyRank(ks[j])

\* Three due definitions: the one with no next_run_at first although its key
\* is last, then two with the same next_run_at in key order.
ListDueExactWitness ==
    /\ last.op = "due"
    /\ last.keys = <<"c", "a", "b">>
    /\ defs["c"].next_run_at = NULL
    /\ defs["a"].next_run_at = defs["b"].next_run_at

\* C18 Cancellation: once the stop signal is set while the scheduler is
\* executing a probe of a pass, the only probe it is ever executing is that
\* one: it starts no further probe of the pass.
NoExecutionAfterStop ==
    (sched.stop /\ sched.stop_i > 0 /\ sched.pc = "running") => sched.i = sched.stop_i

\* The run rows of a key.
RunCount(k) == Cardinality(RunIds(runs, k))

\* C19 Eventual execution: while the scheduler runs and is not stopped, and
\* every probe execution returns, an enabled definition whose next_run_at is
\* null or not after the current time eventually gets a further run row saved
\* by the scheduler (as long as the store is below the MaxRuns rows the model
\* counts).
EventualExecution ==
    \A k \in Keys : \A n \in 0..MaxRuns :
        (/\ phase = "up"
         /\ k \in DOMAIN defs
         /\ defs[k].enabled = 1
         /\ (defs[k].next_run_at = NULL \/ defs[k].next_run_at <= clock)
         /\ RunCount(k) = n)
        ~> (RunCount(k) > n \/ Len(runs) >= MaxRuns)

\* Both definitions synced at the start have their first run, the second of
\* the pass after the first.
EventualExecutionWitness ==
    /\ phase = "up"
    /\ Len(runs) = 2
    /\ runs[1].probe_key = "a"
    /\ runs[2].probe_key = "b"
    /\ defs["b"].last_run_at = runs[2].ended_at

\* C20 A persistence failure surfaces as 500: when the store operation of an
\* authenticated route (status, audit, probes/history, action, probes/run)
\* raises, the caller receives status 500.
StoreFailureSurfacesAs500 ==
    last.op = "http_raise" => last.status = 500

SupportedTypes == {"sms_health", "nid_health", "tcp_check", "http_check"}

\* C21 The runner never raises: run_probe returns an envelope for every
\* definition; an unsupported type or an exception in the type-specific logic
\* gives ok = false, status "error", the message as error and the requested
\* type in payload.probe_type; the status is one of healthy, degraded, error,
\* unknown and ended_at is not before started_at.
RunnerNeverRaises ==
    last.op = "run_probe" =>
        /\ last.run.status \in {"healthy", "degraded", "error", "unknown"}
        /\ last.run.ended_at >= last.run.started_at
        /\ last.probe.type \notin SupportedTypes =>
            /\ ~last.run.ok /\ last.run.status = "error"
            /\ last.run.error = <<"Unsupported probe type: ", last.probe.type>>
            /\ last.run.payload = [probe_type |-> last.probe.type]
        /\ type_logic(last.probe.type, last.probe.config, last.env).raised =>
            /\ ~last.run.ok /\ last.run.status = "error"
            /\ last.run.error = type_logic(last.probe.type, last.probe.config, last.env).error
            /\ last.run.error # <<>>
            /\ last.run.payload = [probe_type |-> last.probe.type]

\* int() raised inside _probe_sms_health and run_probe returned the error row
\* some time after it started.
RunnerNeverRaisesWitness ==
    /\ last.op = "run_probe"
    /\ last.probe.type = "sms_health"
    /\ last.run.status = "error"
    /\ last.run.payload = [probe_type |-> "sms_health"]
    /\ last.run.ended_at > last.run.started_at

\* An http_check run whose request was made (the url is there).
HttpCheckRan ==
    /\ last.op = "run_probe"
    /\ last.probe.type = "http_check"
    /\ str_strip(JGet(last.probe.config, KeyUrl, JStr(<<>>))) # <<>>

\* The expected_status list and allow_4xx of the configuration, as written there.
ConfiguredStatuses ==
    LET raw == JGet(last.probe.config, KeyExpectedStatus, JArr(<<>>))
    IN {raw.v[n].v : n \in 1..Len(raw.v)}

ConfiguredAllow4xx == JGet(last.probe.config, KeyAllow4xx, JBool(TRUE)).v

\* C24 http_check decision rule: for a response with status code s, ok holds
\* iff s is in expected_status when a non-empty expected_status is configured,
\* otherwise iff s < 500 when allow_4xx is true, otherwise iff 200 <= s < 400;
\* the status is healthy when ok and degraded when not.
HttpDecisionRule ==
    (HttpCheckRan /\ last.env.http[1].kind = "response") =>
        LET s == last.env.http[1].status
        IN /\ last.run.payload.status_code = s
           /\ last.run.ok <=>
                IF ConfiguredStatuses # {} THEN s \in ConfiguredStatuses
                ELSE IF ConfiguredAllow4xx THEN s < 500
                ELSE 200 <= s /\ s < 400
           /\ last.run.status = IF last.run.ok THEN "healthy" ELSE "degraded"

\* A 404 that the configuration expects is healthy, and a 404 with allow_4xx
\* switched off and nothing expected would not be.
HttpDecisionRuleWitness ==
    /\ HttpCheckRan
    /\ last.env.http[1] = Response(404)
    /\ ConfiguredStatuses = {404}
    /\ last.run.ok /\ last.run.status = "healthy"

\* C25 http_check transport errors: when the request fails with an exception
\* that is no HTTP status response, whatever its message, the result has
\* ok = false, a non-empty error and status_code 0; no result with
\* status_code 0 has ok = true.
TransportErrorFails ==
    HttpCheckRan =>
        /\ last.env.http[1].kind = "raises" =>
            /\ ~last.run.ok
            /\ last.run.error # <<>>
            /\ last.run.payload.status_code = 0
        /\ last.run.payload.status_code = 0 => ~last.run.ok

\* A composite run whose type-specific logic returned.
CompositeRan ==
    /\ last.op = "run_probe"
    /\ last.probe.type \in {"sms_health", "nid_health"}
    /\ ~type_logic(last.probe.type, last.probe.config, last.env).raised

\* No DSN in the configuration and none in the environment.
DsnMissing ==
    /\ \A n \in 1..Len(last.probe.config.v) : last.probe.config.v[n][1] # KeyPgDsn
    /\ last.env.dsn_env = <<>>

\* C26 Composite aggregation: ok holds iff every required step is ok or
\* skipped, the status is healthy when ok and degraded otherwise, the error
\* lists the names of the failing steps in step order, and a missing DSN
\* records one db_checks step that is skipped, not required and ok.
CompositeAggregation ==
    CompositeRan =>
        LET steps == last.run.payload.steps
            Fails(st) == ~(st.skipped \/ st.ok)
        IN /\ last.run.ok <=> \A n \in 1..Len(steps) : steps[n].required => ~Fails(steps[n])
           /\ last.run.status = IF last.run.ok THEN "healthy" ELSE "degraded"
           /\ last.run.error = Join(NamesOf(SelectSeq(steps, Fails)))
           /\ (last.probe.type = "sms_health" /\ DsnMissing) =>
                /\ Len(steps) = 3
                /\ steps[3] = Step("db_checks", FALSE, TRUE, TRUE, <<"pg_dsn not provided">>)
                /\ \A n \in 1..2 : steps[n].name # "db_checks"

\* An sms_health run with a DSN whose HTTP step and second query fail.
CompositeAggregationWitness ==
    /\ CompositeRan
    /\ last.probe.type = "sms_health"
    /\ Len(last.run.payload.steps) = 4
    /\ last.run.status = "degraded"
    /\ last.run.error = <<"provider_http", "; ", "db_failed_recent">>

\* C22 Audit visibility and order: a read with limit >= 1 made after
\* execute_action returned holds the action's row as long as fewer than limit
\* rows were appended after it; the read returns at most limit rows, newest
\* first, and they are the rows appended last.
AuditVisibleNewestFirst ==
    last.op = "read_audit" =>
        /\ Len(last.rows) = Min(last.limit, Len(audit))
        /\ \A j \in 1..Len(audit) :
            Len(audit) - j < last.limit =>
                /\ Len(audit) - j + 1 \in DOMAIN last.rows
                /\ last.rows[Len(audit) - j + 1] = [audit[j] EXCEPT !.ok = (@ # 0)]

\* Two actions were audited, the second a failure at a later time, and a read
\* with limit 1 returns the second.
AuditVisibleNewestFirstWitness ==
    /\ last.op = "read_audit"
    /\ last.limit = 1
    /\ Len(audit) = 2
    /\ audit[1].ok = 1 /\ audit[2].ok = 0
    /\ audit[1].timestamp_utc < audit[2].timestamp_utc
    /\ Len(last.rows) = 1
    /\ ~last.rows[1].ok

\* The definition the running process synced under key k, and whether it
\* gave stale_after_seconds.
SyncedWithoutStale(k) ==
    /\ k \in ConfigKeys(config)
    /\ LastWithKey(config, k).stale_after_seconds = NULL

\* C23 Clamping invariant: every stored definition has interval_seconds >= 5,
\* timeout_seconds >= 1 and stale_after_seconds >= 10 under its one key, and
\* when the synced definition gives no stale_after_seconds the stored value
\* is max(2 * stored interval_seconds, 120).
ClampingInvariant ==
    /\ \A k \in DOMAIN defs :
        /\ defs[k].interval_seconds >= 5
        /\ defs[k].timeout_seconds >= 1
        /\ defs[k].stale_after_seconds >= 10
    /\ phase = "up" =>
        \A k \in DOMAIN defs :
            SyncedWithoutStale(k) =>
                defs[k].stale_after_seconds = Max(2 * defs[k].interval_seconds, 120)

\* Two definitions are stored, one raised to the minima and one with the
\* default of twice its interval, and the scheduler has saved a run.
ClampingInvariantWitness ==
    /\ phase = "up"
    /\ DOMAIN defs = {"a", "b"}
    /\ defs["a"].interval_seconds = 5 /\ defs["a"].timeout_seconds = 1
    /\ defs["a"].stale_after_seconds = 10
    /\ SyncedWithoutStale("b")
    /\ defs["b"].interval_seconds = 70 /\ defs["b"].stale_after_seconds = 140
    /\ runs # <<>>

\* C27 Scheduler write order: for each probe the scheduler executes,
\* set_probe_next_run(key, T) with T = current time + interval is done when
\* the runner starts, the runner is over when save_probe_run is called,
\* save_probe_run is given the same T, and right after the scheduler's save
\* the stored next_run_at of the key is T, whatever an on-demand run of the
\* key saved in between.
SchedulerWriteOrder ==
    [][/\ (sched.pc = "set_next" /\ sched'.pc = "running") =>
            /\ sched'.tentative_next = clock + Seconds(sched.due[sched.i].interval_seconds)
            /\ defs'[sched.due[sched.i].key].next_run_at = sched'.tentative_next
            /\ runs' = runs
       /\ (sched.pc \in {"running", "save"} /\ sched'.pc \in {"running", "save"}) =>
            /\ sched'.tentative_next = sched.tentative_next
            /\ sched'.i = sched.i /\ sched'.due = sched.due
       /\ (sched.pc = "running" /\ sched'.pc = "save") =>
            /\ sched'.run.started_at = sched.started
            /\ runs' = runs /\ defs' = defs
       /\ (sched.pc = "save" /\ sched'.pc \in {"set_next", "wait"}) =>
            /\ runs' = Append(runs, runs'[Len(runs')])
            /\ runs'[Len(runs')].probe_key = sched.due[sched.i].key
            /\ runs'[Len(runs')].started_at = sched.run.started_at
            /\ defs'[sched.due[sched.i].key].next_run_at = sched.tentative_next
      ]_vars

\* The scheduler started "a" at time 0, an on-demand run of "a" started and
\* was saved five seconds later, and the scheduler's save came last: next_run_at
\* is the scheduler's T and not the later time of the on-demand run.
SchedulerWriteOrderWitness ==
    /\ phase = "up"
    /\ sched.pc \in {"set_next", "wait"} /\ sched.i = 2
    /\ Len(runs) = 2
    /\ runs[1].probe_key = "a" /\ runs[2].probe_key = "a"
    /\ runs[1].started_at = Seconds(5)
    /\ runs[2].started_at = 0
    /\ defs["a"].next_run_at = Seconds(5)

\* The keys list_due_probes returns at a time.
DueKeysAt(now) == {list_due_probes(DB, now)[n].key : n \in DOMAIN list_due_probes(DB, now)}

\* C28 A crash does not hot-loop a probe: when the process stops between the
\* scheduler's set_probe_next_run and save_probe_run for a key and is started
\* again with a configuration that holds the key, list_due_probes(now) does
\* not return the key for a now before the tentative next_run_at, and the
\* scheduler's first pass before that time does not take it.
CrashDoesNotHotLoop ==
    /\ [](last.op = "restarted" =>
            \A now \in 0..Seconds(MaxClockSeconds) :
                now < last.tentative_next => last.key \notin DueKeysAt(now))
    /\ [][(/\ last.op = "restarted"
           /\ sched.pc = "top" /\ sched'.pc \in {"set_next", "wait"}
           /\ clock < last.tentative_next) =>
            \A n \in DOMAIN sched'.due : sched'.due[n].key # last.key]_vars

\* Restarted with "a" and a new definition "b" after "a" was cut off: the
\* scheduler's first pass has listed "b" alone, before the tentative time of "a".
CrashDoesNotHotLoopWitness ==
    /\ phase = "up"
    /\ sched.pc = "set_next"
    /\ Len(sched.due) = 1 /\ sched.due[1].key = "b"
    /\ "a" \in DOMAIN defs /\ defs["a"].enabled = 1
    /\ defs["a"].last_run_at = NULL
    /\ defs["a"].next_run_at > clock
    /\ runs = <<>>

\* C29 The scheduler loop survives store failures: when list_due_probes,
\* set_probe_next_run or save_probe_run raises during a pass, the scheduler of
\* a running process that was not stopped does not terminate.
SchedulerSurvivesStoreFailure ==
    (phase = "up" /\ ~sched.stop) => sched.pc # "ended"

\* C30 Append-only rows: no step modifies or deletes a row of probe_runs or
\* of action_audit, and a row that is inserted takes the id after every id of
\* its table.
AppendOnlyRows ==
    [][/\ Len(runs') >= Len(runs)
       /\ \A i \in 1..Len(runs) : runs'[i] = runs[i]
       /\ Len(audit') >= Len(audit)
       /\ \A i \in 1..Len(audit) : audit'[i] = audit[i]]_vars

\* The tables hold two rows each, written by different processes: the store
\* was synced again after the first run was saved.
AppendOnlyRowsWitness ==
    /\ Len(runs) = 2 /\ Len(audit) = 2
    /\ runs[1].probe_key = "a" /\ runs[2].probe_key = "b"
    /\ "a" \in DOMAIN defs /\ defs["a"].enabled = 0

\* The row a saved run becomes.
RowCarries(row, key, run) ==
    /\ row.probe_key = key
    /\ row.started_at = run.started_at
    /\ row.ended_at = run.ended_at
    /\ row.ok = (IF run.ok THEN 1 ELSE 0)
    /\ row.status = run.status

\* The scheduler's save_probe_run returns in this step.
SchedSaved == phase = "up" /\ sched.pc = "save" /\ phase' = "up" /\ sched'.pc # "save"

\* The save_probe_run of run_probe_once on worker w returns in this step.
WorkerSaved(w) ==
    phase = "up" /\ workers[w].pc = "save" /\ phase' = "up" /\ workers'[w].pc # "save"

\* C31 Exactly one row per executed attempt: the save of an execution that
\* returned from the runner, the scheduler's or an on-demand one, adds exactly
\* one probe_runs row, for its key and with its started_at, ended_at, ok and
\* status, and no other step adds a row.
OneRowPerAttempt ==
    [][/\ SchedSaved =>
            /\ Len(runs') = Len(runs) + 1
            /\ RowCarries(runs'[Len(runs')], sched.due[sched.i].key, sched.run)
       /\ \A w \in Workers : WorkerSaved(w) =>
            /\ Len(runs') = Len(runs) + 1
            /\ RowCarries(runs'[Len(runs')], workers[w].probe.key, workers[w].run)
       /\ Len(runs') # Len(runs) => SchedSaved \/ \E w \in Workers : WorkerSaved(w)]_vars

\* An on-demand run of a key was saved after the scheduler had saved its own
\* run of the same key in this process.
OneRowPerAttemptWitness ==
    /\ Len(runs) = 2
    /\ runs[1].probe_key = runs[2].probe_key
    /\ last.op = "run_once" /\ last.status = 200
    /\ sched.pc = "wait" /\ sched.i = 2

\* C32 Helper body cap: a request whose body, the bytes before the newline or
\* all the bytes of a connection that ends without one, is longer than
\* max(1024, RC_HELPER_MAX_BODY_BYTES) is neither parsed nor executed and is
\* answered "Request body too large.".
HelperBodyCap ==
    (last.op = "helper_handle" /\ last.stream.n > max_body_of(last.env)) =>
        /\ last.reply.parsed = 0
        /\ last.reply.response = "refused"
        /\ last.reply.result.result.stderr = <<"Request body too large.">>

\* C33 The scheduler executes only probes that are due when execution starts:
\* in the step in which the scheduler begins executing a key, the stored
\* definition of the key, as it is just before the tentative write, is enabled
\* and has next_run_at null or not later than the current time.
SchedulerExecutesOnlyDue ==
    [][(phase = "up" /\ sched.pc = "set_next" /\ sched'.pc = "running") =>
            IsDue(defs[sched.due[sched.i].key], clock)]_vars

\* C34 last_run_at is monotonic: no step moves the stored last_run_at of a
\* definition to an earlier time than the one it held.
LastRunAtMonotonic ==
    [][\A k \in DOMAIN defs :
            defs[k].last_run_at # NULL =>
                /\ k \in DOMAIN defs'
                /\ defs'[k].last_run_at # NULL
                /\ defs'[k].last_run_at >= defs[k].last_run_at]_vars

\* A save_probe_run returns in this step.
SaveReturned == SchedSaved \/ (last'.op = "run_once" /\ last'.status = 200)

\* C35 A failed save_probe_run leaves no partial effect: the run row of a
\* save that raised after its INSERT is not returned by a later read and is
\* not made durable by a later commit.
FailedSaveLeavesNothing ==
    [][/\ (uncommitted > 0 /\ last'.op = "history") =>
            \A n \in DOMAIN last'.rows : last'.rows[n].id <= Len(runs) - uncommitted
       /\ (uncommitted > 0 /\ uncommitted' = 0) =>
            Len(runs') = Len(runs) - uncommitted + (IF SaveReturned THEN 1 ELSE 0)]_vars

\* C36 A wrong token has no side effects: with the admin token set, a request
\* to a route other than /api/v1/health whose X-RC-Token is not the token is
\* answered 401, reaches no handler and leaves every table as it was.
WrongTokenNoSideEffects ==
    [][(/\ last'.op = "http"
        /\ admin_token # ""
        /\ ~PathIs(last'.req.path, HealthPath)
        /\ strip(last'.req.token) # admin_token) =>
            /\ last'.status = 401
            /\ last'.handler = "none"
            /\ defs' = defs /\ runs' = runs /\ audit' = audit]_vars

\* Lists given to sync_probe_definitions: none, one, two, and two definitions
\* of one key.
SyncLists ==
    {<<>>, <<DefA>>, <<DefB>>, <<DefA, DefB>>, <<DefB, DefBOff>>,
     <<DefA, [DefB EXCEPT !.key = " a"]>>}

\* A second sync of the same list, at time now, leaves what the first left.
SecondSyncSame(once, definitions, now) ==
    sync_probe_definitions(once, definitions, now) = once

\* C37 sync_probe_definitions is idempotent: applied to any store state, a
\* second sync of the same list, at the same or a later time, leaves the
\* definitions with every next_run_at and last_run_at, the runs and the audit
\* rows as the first sync left them.
SyncIdempotent ==
    \A definitions \in SyncLists, later \in {0, 1} :
        SecondSyncSame(sync_probe_definitions(DB, definitions, clock), definitions,
                       clock + Seconds(later))

\* A store with two runs and a definition that ran and was then disabled,
\* which a sync of one of the lists changes.
SyncIdempotentWitness ==
    /\ Len(runs) = 2 /\ Len(audit) >= 1
    /\ \E k \in DOMAIN defs : defs[k].enabled = 0 /\ defs[k].last_run_at # NULL
    /\ \E definitions \in SyncLists : sync_probe_definitions(DB, definitions, clock) # DB

\* Row after differs from row before in last_run_at and next_run_at at most.
OnlyRunTimesChanged(before, after) ==
    after = [before EXCEPT !.last_run_at = after.last_run_at,
                           !.next_run_at = after.next_run_at]

\* C38 On-demand run of an unknown key: run_probe_once of a key with no stored
\* definition answers 404, starts no execution and leaves the definitions,
\* the runs and the audit rows as they were; for a stored key it answers 200
\* and its save changes the last_run_at and next_run_at of that key only.
RunOnceFrame ==
    [][/\ last'.op = "run_once" =>
            (last'.status = 404 <=> last'.key \notin DOMAIN defs)
       /\ (last'.op = "run_once" /\ last'.status = 404) =>
            /\ defs' = defs /\ runs' = runs /\ audit' = audit
            /\ workers' = workers /\ sched' = sched
       /\ \A w \in Workers : WorkerSaved(w) =>
            /\ last'.op = "run_once" /\ last'.status = 200
            /\ last'.key = workers[w].probe.key
            /\ DOMAIN defs' = DOMAIN defs
            /\ \A k \in DOMAIN defs :
                IF k = last'.key THEN OnlyRunTimesChanged(defs[k], defs'[k])
                ELSE defs'[k] = defs[k]
            /\ audit' = audit]_vars

\* Key "b" has no definition and was asked for after a run of "a" was saved.
RunOnceFrameWitness ==
    /\ last.op = "run_once" /\ last.status = 404 /\ last.key = "b"
    /\ "a" \in DOMAIN defs /\ defs["a"].last_run_at # NULL
    /\ Len(runs) >= 1

\* The row save_probe_run inserts for an envelope.
RowOf(run) == insert_probe_run(EmptyDB, "k", run).runs[1]

\* C39 Verdict consistency: every envelope run_probe returns, and the row
\* saved from it, has ok exactly when its status is "healthy"; "error" and
\* "degraded" come with ok = false.
VerdictConsistency ==
    last.op = "run_probe" =>
        /\ last.run.ok <=> last.run.status = "healthy"
        /\ last.run.status \in {"error", "degraded"} => ~last.run.ok
        /\ RowOf(last.run).ok = 1 <=> RowOf(last.run).status = "healthy"
        /\ RowOf(last.run).status \in {"error", "degraded"} => RowOf(last.run).ok = 0

\* An http_check whose request was answered 500: degraded with no error text.
VerdictConsistencyWitness ==
    /\ last.op = "run_probe"
    /\ last.probe.type = "http_check"
    /\ last.run.status = "degraded" /\ ~last.run.ok
    /\ last.run.error = <<>>

====
